---- MODULE Spec2Model ----
(***************************************************************************)
(* The shared transposition table of src/src/tt.cpp: bit-packed entries,   *)
(* three per 32-byte cluster plus 16 shared extra bits, the probe / write  *)
(* protocol, the replacement policy and the generation counter.            *)
(*                                                                         *)
(* A 64-bit Key is a tuple of four 16-bit limbs, most significant first.   *)
(* A pointer to a TTEntry is the byte offset of the entry from the         *)
(* 32-byte aligned start of the table.  The table is kept sparsely: only   *)
(* the clusters some modelled key maps to are held, every other cluster is *)
(* never written after the clear that zeroed it.                           *)
(***************************************************************************)
EXTENDS Integers, Sequences, FiniteSets, TLC

VARIABLES table, clusterCount, generation8, pr, last, writes, accepted,
          searches, stored, th, jobs, hist

vars == <<table, clusterCount, generation8, pr, last, writes, accepted,
          searches, stored, th, jobs, hist>>

(***************************************************************************)
(* Bounds of the model.                                                    *)
(***************************************************************************)
\* writes between two clears, specification Spec
MaxWrites == 4
\* writes between two clears, specification SpecSave
MaxSaves == 5
\* calls of new_search between two clears
MaxSearches == 1
\* writes, specification SpecWide (the wide argument set)
MaxWideWrites == 1
\* the largest number of threads clear is run with
MaxThreads == 3
\* the largest table size resize is called with, in MB, and the writes
\* between two clears, specification SpecSize
MaxMb == 3
MaxSizeWrites == 2
\* saves of the two threads together, specification SpecRace
MaxRaceSaves == 3
\* writes, calls of new_search and the largest maxAge, specification SpecFull
MaxFullWrites == 5
MaxFullSearches == 1
MaxFullAge == 1
\* writes and calls of new_search, specification SpecReplace
MaxReplaceWrites == 3
MaxReplaceSearches == 6
\* writes and calls of new_search, specification SpecGen: the generation
\* wraps at the 32nd call
MaxGenWrites == 1
MaxGenSearches == 33
MaxTornSaves == 2
MaxWaitSaves == 2
\* writes and calls of new_search, specification SpecStale
MaxStaleWrites == 2
MaxStaleSearches == 33
\* writes and calls of new_search, specification SpecWrap
MaxWrapWrites == 2
MaxWrapSearches == 33
\* writes and calls of new_search, specification SpecNest
MaxNestWrites == 3
MaxNestSearches == 1
\* saves, specification SpecDecay
MaxDecaySaves == 3
\* saves, specification SpecMix
MaxMixSaves == 2

(***************************************************************************)
(* Constants of types.h, which is not among the source files: the values   *)
(* are the ones the specification gives (bounds, move 0 = none) and the    *)
(* ones the code of tt.cpp relies on (a negative entry offset, a value     *)
(* sentinel that fits in 16 bits).                                         *)
(***************************************************************************)
DEPTH_ENTRY_OFFSET == -3
VALUE_NONE == 32002
BOUND_NONE == 0
BOUND_UPPER == 1
BOUND_LOWER == 2
BOUND_EXACT == 3
MOVE_NONE == 0

(***************************************************************************)
(* Constants of tt.cpp.                                                    *)
(***************************************************************************)
GENERATION_BITS == 3
GENERATION_DELTA == 2 ^ GENERATION_BITS
GENERATION_CYCLE == 255 + GENERATION_DELTA
GENERATION_MASK == (255 * (2 ^ GENERATION_BITS)) % 256
kClusterSize == 32
\* sizeof(TTEntry): key16 2, depth8 1, genBound8 1, move16 2, value16 2, eval16 2
SizeofTTEntry == 10
\* sizeof(Cluster::extra) * 8
ExtraBits == 16
kNumEntries == kClusterSize \div SizeofTTEntry
kExtraBitsPerEntry == ExtraBits \div kNumEntries

(***************************************************************************)
(* Machine arithmetic.                                                     *)
(***************************************************************************)
RECURSIVE BitAnd(_, _)
BitAnd(a, b) ==
    IF a = 0 \/ b = 0 THEN 0
    ELSE (a % 2) * (b % 2) + 2 * BitAnd(a \div 2, b \div 2)

RECURSIVE BitOr(_, _)
BitOr(a, b) ==
    IF a = 0 THEN b
    ELSE IF b = 0 THEN a
    ELSE (IF a % 2 = 1 \/ b % 2 = 1 THEN 1 ELSE 0) + 2 * BitOr(a \div 2, b \div 2)

ShiftL(x, n) == x * (2 ^ n)
ShiftR(x, n) == x \div (2 ^ n)

\* uint8_t(x), uint16_t(x), int16_t(x) of an int x
ToUint8(x) == x % 256
ToUint16(x) == x % 65536
ToInt16(x) == IF x % 65536 >= 32768 THEN (x % 65536) - 65536 ELSE x % 65536
\* ~x of an unsigned x, as far as the 16 bits of Cluster::extra see it
Not16(x) == 65535 - (x % 65536)
BoolToInt(p) == IF p THEN 1 ELSE 0

(***************************************************************************)
(* Keys.  uint16_t(key) is the least significant limb.                     *)
(***************************************************************************)
KeyStub(key) == key[4]

\* the eight bytes of a key, least significant first
KeyBytes(key) ==
    << key[4] % 256, key[4] \div 256, key[3] % 256, key[3] \div 256,
       key[2] % 256, key[2] \div 256, key[1] % 256, key[1] \div 256 >>

RECURSIVE MulCarry(_, _, _, _)
MulCarry(bytes, n, i, carry) ==
    IF i > Len(bytes) THEN carry
    ELSE MulCarry(bytes, n, i + 1, (bytes[i] * n + carry) \div 256)

\* the product rounded to the nearest multiple of 2^64 instead of truncated
mul_hi64Rounded(key, n) ==
    MulCarry(KeyBytes(key), n, 1, 0) + (IF key[1] >= 32768 THEN 1 ELSE 0)

\* the high 64 bits of the 128-bit product key * n, for n < 2^23
mul_hi64(key, n) == MulCarry(KeyBytes(key), n, 1, 0)

(***************************************************************************)
(* Entries, clusters and the table.                                        *)
(***************************************************************************)
EntryIdx == 0 .. (kNumEntries - 1)

\* an entry of zeroed memory
ZeroEntry ==
    [key16 |-> 0, depth8 |-> 0, genBound8 |-> 0, move16 |-> 0,
     value16 |-> 0, eval16 |-> 0]

\* a cluster of zeroed memory
ZeroCluster == [entry |-> [i \in EntryIdx |-> ZeroEntry], extra |-> 0]

\* &table[c].entry[i], as a byte offset from the table's start
EntryAddr(c, i) == c * kClusterSize + i * SizeofTTEntry

\* the index taken from the address shifted by 4: offsets 0, 10, 20 give 0, 0, 1
locate_in_clusterShift4(addr) ==
    [cluster |-> addr - (addr % kClusterSize),
     index   |-> ShiftR(addr % kClusterSize, 4)]

\* TTEntry::locate_in_cluster: the cluster's address and the entry's index
\* from the entry's own address
locate_in_cluster(addr) ==
    [cluster |-> addr - (addr % kClusterSize),
     index   |-> ShiftR(addr % kClusterSize, 3)]

\* the table's index of the cluster at a cluster address
ClusterOf(caddr) == caddr \div kClusterSize

\* the entry an entry pointer refers to: the bytes at that address
EntryAt(t, addr) ==
    t[addr \div kClusterSize].entry[(addr % kClusterSize) \div SizeofTTEntry]

(***************************************************************************)
(* TTExtraEntry<1, 0>::Accessor: entry index_'s bit field of the cluster's *)
(* extra.                                                                  *)
(***************************************************************************)
kEntrySize == 1
kLocalOffset == 0

AccessorOffset(index) == kLocalOffset + index * kExtraBitsPerEntry
AccessorMask == ShiftL(1, kEntrySize) - 1

\* operator int(): cluster_->extra >> offset() & mask()
AccessorRead(extra, index) ==
    BitAnd(ShiftR(extra, AccessorOffset(index)), AccessorMask)

\* a write that ORs the value in and never clears the field
AccessorWriteNoClear(extra, index, val) ==
    ToUint16(BitOr(extra, ShiftL(ToUint16(val), AccessorOffset(index))))

\* a write to the field of entry 0, whatever the index
AccessorWriteNoOffset(extra, index, val) ==
    ToUint16(BitOr(BitAnd(extra, Not16(AccessorMask)), ToUint16(val)))

\* operator=(int val):
\*   extra = extra & ~(mask() << offset()) | (uint16_t(val) << offset())
AccessorWrite(extra, index, val) ==
    ToUint16(BitOr(BitAnd(extra, Not16(ShiftL(AccessorMask, AccessorOffset(index)))),
                   ShiftL(ToUint16(val), AccessorOffset(index))))

\* bool(cutNode1()) of the entry at addr
cutNode1(t, addr) ==
    LET loc == locate_in_cluster(addr)
    IN  AccessorRead(t[ClusterOf(loc.cluster)].extra, loc.index)

(***************************************************************************)
(* TTEntry::read, is_occupied, relative_age.                               *)
(***************************************************************************)
\* TTEntry::read with the depth taken as stored, without the offset
readNoOffset(t, addr) ==
    LET e == EntryAt(t, addr)
    IN  [move  |-> e.move16,
         value |-> e.value16,
         eval  |-> e.eval16,
         depth |-> e.depth8,
         bound |-> BitAnd(e.genBound8, 3),
         is_pv |-> BitAnd(e.genBound8, 4) # 0,
         cut   |-> cutNode1(t, addr) # 0]

\* the snapshot whose bound keeps the pv bit: genBound8 & 0x7
readBoundWithPv(t, addr) ==
    LET e == EntryAt(t, addr)
    IN  [move  |-> e.move16,
         value |-> e.value16,
         eval  |-> e.eval16,
         depth |-> e.depth8 + DEPTH_ENTRY_OFFSET,
         bound |-> BitAnd(e.genBound8, 7),
         is_pv |-> BitAnd(e.genBound8, 4) # 0,
         cut   |-> cutNode1(t, addr) # 0]

\* TTEntry::read: the snapshot of the entry at addr
read(t, addr) ==
    LET e == EntryAt(t, addr)
    IN  [move  |-> e.move16,
         value |-> e.value16,
         eval  |-> e.eval16,
         depth |-> e.depth8 + DEPTH_ENTRY_OFFSET,
         bound |-> BitAnd(e.genBound8, 3),
         is_pv |-> BitAnd(e.genBound8, 4) # 0,
         cut   |-> cutNode1(t, addr) # 0]

is_occupied(e) == e.depth8 # 0

\* the age with 256 in place of GENERATION_CYCLE: the flag bits of genBound8
\* borrow from the generation bits
relative_ageCycle256(e, gen8) ==
    ToUint8(BitAnd(256 + gen8 - e.genBound8, GENERATION_MASK))

\* the age as a plain difference that stops at 0 and never goes round
relative_ageNoWrap(e, gen8) ==
    IF gen8 >= BitAnd(e.genBound8, GENERATION_MASK)
    THEN gen8 - BitAnd(e.genBound8, GENERATION_MASK)
    ELSE 0

\* the age without the mask: the three flag bits of genBound8 leak into it
relative_ageNoMask(e, gen8) == ToUint8(GENERATION_CYCLE + gen8 - e.genBound8)

\* uint8_t((GENERATION_CYCLE + generation8 - genBound8) & GENERATION_MASK)
relative_age(e, gen8) ==
    ToUint8(BitAnd(GENERATION_CYCLE + gen8 - e.genBound8, GENERATION_MASK))

(***************************************************************************)
(* TTEntry::save, step by step.                                            *)
(***************************************************************************)
\* the move written whatever the stored stub and the incoming move are
SaveMoveAlways(e, k, m) == [e EXCEPT !.move16 = m]

\* if (m || uint16_t(k) != key16) move16 = m;
SaveMove(e, k, m) ==
    IF m # 0 \/ KeyStub(k) # e.key16 THEN [e EXCEPT !.move16 = m] ELSE e

\* the overwrite test without its first disjunct, b == BOUND_EXACT
SaveOverwritesNoExact(e, k, pv, b, d, gen8) ==
    \/ KeyStub(k) # e.key16
    \/ d - DEPTH_ENTRY_OFFSET + 2 * BoolToInt(pv) > e.depth8 - 4
    \/ relative_age(e, gen8) # 0

\* the overwrite test without its last disjunct, the entry's age
SaveOverwritesNoAge(e, k, pv, b, d, gen8) ==
    \/ b = BOUND_EXACT
    \/ KeyStub(k) # e.key16
    \/ d - DEPTH_ENTRY_OFFSET + 2 * BoolToInt(pv) > e.depth8 - 4

\* the overwrite test with >= for > in the depth comparison
SaveOverwritesGeq(e, k, pv, b, d, gen8) ==
    \/ b = BOUND_EXACT
    \/ KeyStub(k) # e.key16
    \/ d - DEPTH_ENTRY_OFFSET + 2 * BoolToInt(pv) >= e.depth8 - 4
    \/ relative_age(e, gen8) # 0

\* b == BOUND_EXACT || uint16_t(k) != key16
\*   || d - DEPTH_ENTRY_OFFSET + 2 * pv > depth8 - 4 || relative_age(generation8)
SaveOverwrites(e, k, pv, b, d, gen8) ==
    \/ b = BOUND_EXACT
    \/ KeyStub(k) # e.key16
    \/ d - DEPTH_ENTRY_OFFSET + 2 * BoolToInt(pv) > e.depth8 - 4
    \/ relative_age(e, gen8) # 0

\* assert(d > DEPTH_ENTRY_OFFSET); assert(d < 256 + DEPTH_ENTRY_OFFSET);
SaveAsserts(d) == d > DEPTH_ENTRY_OFFSET /\ d < 256 + DEPTH_ENTRY_OFFSET

\* the committed fields with the depth stored as uint8_t(d), offset forgotten
SaveCommitNoOffset(e, k, v, pv, b, d, ev, gen8) ==
    [e EXCEPT !.key16     = ToUint16(KeyStub(k)),
              !.depth8    = ToUint8(d),
              !.genBound8 = ToUint8(BitOr(BitOr(gen8, ShiftL(BoolToInt(pv), 2)), b)),
              !.value16   = ToInt16(v),
              !.eval16    = ToInt16(ev)]

\* the committed fields with the key's high 16 bits as the stub
SaveCommitHighStub(e, k, v, pv, b, d, ev, gen8) ==
    [e EXCEPT !.key16     = k[1],
              !.depth8    = ToUint8(d - DEPTH_ENTRY_OFFSET),
              !.genBound8 = ToUint8(BitOr(BitOr(gen8, ShiftL(BoolToInt(pv), 2)), b)),
              !.value16   = ToInt16(v),
              !.eval16    = ToInt16(ev)]

\* the committed fields with value16 and eval16 exchanged
SaveCommitSwapped(e, k, v, pv, b, d, ev, gen8) ==
    [e EXCEPT !.key16     = ToUint16(KeyStub(k)),
              !.depth8    = ToUint8(d - DEPTH_ENTRY_OFFSET),
              !.genBound8 = ToUint8(BitOr(BitOr(gen8, ShiftL(BoolToInt(pv), 2)), b)),
              !.value16   = ToInt16(ev),
              !.eval16    = ToInt16(v)]

\* key16 = uint16_t(k); depth8 = uint8_t(d - DEPTH_ENTRY_OFFSET);
\* genBound8 = uint8_t(generation8 | uint8_t(pv) << 2 | b);
\* value16 = int16_t(v); eval16 = int16_t(ev);
SaveCommit(e, k, v, pv, b, d, ev, gen8) ==
    [e EXCEPT !.key16     = ToUint16(KeyStub(k)),
              !.depth8    = ToUint8(d - DEPTH_ENTRY_OFFSET),
              !.genBound8 = ToUint8(BitOr(BitOr(gen8, ShiftL(BoolToInt(pv), 2)), b)),
              !.value16   = ToInt16(v),
              !.eval16    = ToInt16(ev)]

\* the aging test without the bound: entries of bound EXACT age too
SaveAgesAnyBound(e) == e.depth8 + DEPTH_ENTRY_OFFSET >= 5

\* the aging test without the depth: every entry that is not exact ages
SaveAgesAnyDepth(e) == BitAnd(e.genBound8, 3) # BOUND_EXACT

\* else if (depth8 + DEPTH_ENTRY_OFFSET >= 5 && Bound(genBound8 & 0x3) != BOUND_EXACT)
SaveAges(e) ==
    /\ e.depth8 + DEPTH_ENTRY_OFFSET >= 5
    /\ BitAnd(e.genBound8, 3) # BOUND_EXACT

\* depth8--;
SaveAge(e) == [e EXCEPT !.depth8 = ToUint8(e.depth8 - 1)]

\* a save that stores the cut flag also when the overwrite test fails
saveCutAlways(t, addr, k, v, pv, b, d, m, ev, cut, gen8) ==
    LET c   == addr \div kClusterSize
        i   == (addr % kClusterSize) \div SizeofTTEntry
        e1  == SaveMove(t[c].entry[i], k, m)
        t1  == [t EXCEPT ![c].entry[i] =
                   IF SaveOverwrites(e1, k, pv, b, d, gen8)
                   THEN SaveCommit(e1, k, v, pv, b, d, ev, gen8)
                   ELSE IF SaveAges(e1) THEN SaveAge(e1) ELSE e1]
    IN  [t1 EXCEPT ![c].extra = AccessorWrite(t1[c].extra, i, BoolToInt(cut))]

\* a save that applies the move rule only when the overwrite test succeeds
saveMoveOnCommit(t, addr, k, v, pv, b, d, m, ev, cut, gen8) ==
    LET c   == addr \div kClusterSize
        i   == (addr % kClusterSize) \div SizeofTTEntry
        e0  == t[c].entry[i]
        e1  == SaveMove(e0, k, m)
    IN  IF SaveOverwrites(e1, k, pv, b, d, gen8)
        THEN LET t1 == [t EXCEPT ![c].entry[i] = SaveCommit(e1, k, v, pv, b, d, ev, gen8)]
             IN  [t1 EXCEPT ![c].extra = AccessorWrite(t1[c].extra, i, BoolToInt(cut))]
        ELSE IF SaveAges(e0)
        THEN [t EXCEPT ![c].entry[i] = SaveAge(e0)]
        ELSE t

\* the table after entry->save(k, v, pv, b, d, m, ev, cut, generation8), entry
\* being the pointer addr
save(t, addr, k, v, pv, b, d, m, ev, cut, gen8) ==
    LET c   == addr \div kClusterSize
        i   == (addr % kClusterSize) \div SizeofTTEntry
        e1  == SaveMove(t[c].entry[i], k, m)
        loc == locate_in_cluster(addr)
        xc  == ClusterOf(loc.cluster)
    IN  IF SaveOverwrites(e1, k, pv, b, d, gen8)
        THEN LET t1 == [t EXCEPT ![c].entry[i] = SaveCommit(e1, k, v, pv, b, d, ev, gen8)]
             IN  [t1 EXCEPT ![xc].extra =
                                AccessorWrite(t1[xc].extra, loc.index, BoolToInt(cut))]
        ELSE IF SaveAges(e1)
        THEN [t EXCEPT ![c].entry[i] = SaveAge(e1)]
        ELSE [t EXCEPT ![c].entry[i] = e1]

\* a write through the cluster's first entry, whatever entry the writer holds
TTWriter_writeFirst(t, entry, k, v, pv, b, d, m, ev, cut, gen8) ==
    save(t, entry - (entry % kClusterSize), k, v, pv, b, d, m, ev, cut, gen8)

\* TTWriter::write
TTWriter_write(t, entry, k, v, pv, b, d, m, ev, cut, gen8) ==
    save(t, entry, k, v, pv, b, d, m, ev, cut, gen8)

(***************************************************************************)
(* TranspositionTable::first_entry and probe.                              *)
(***************************************************************************)
first_entry(cc, key) == EntryAddr(mul_hi64(key, cc), 0)

\* tte[i]
EntryPtr(tte, i) == tte + i * SizeofTTEntry

\* for (i = 0; i < kNumEntries; ++i) if (tte[i].key16 == key16) return ...
\* the index the loop returns at, -1 when it runs to its end
RECURSIVE FirstMatch(_, _, _, _)
FirstMatch(t, tte, key16, i) ==
    IF i >= kNumEntries THEN -1
    ELSE IF EntryAt(t, EntryPtr(tte, i)).key16 = key16 THEN i
    ELSE FirstMatch(t, tte, key16, i + 1)

\* the scan that starts at the second entry
ScanMatchFromSecond(t, tte, key16) == FirstMatch(t, tte, key16, 1)

ScanMatch(t, tte, key16) == FirstMatch(t, tte, key16, 0)

\* the replace value without the age: the stored depth alone
ReplaceValueNoAge(t, addr, gen8) == EntryAt(t, addr).depth8

\* replace->depth8 - replace->relative_age(generation8)
ReplaceValue(t, addr, gen8) ==
    EntryAt(t, addr).depth8 - relative_age(EntryAt(t, addr), gen8)

\* the scan with the comparison turned round: the most valuable entry is picked
RECURSIVE ReplaceScanMostValuable(_, _, _, _, _)
ReplaceScanMostValuable(t, tte, gen8, i, replace) ==
    IF i >= kNumEntries THEN replace
    ELSE ReplaceScanMostValuable(t, tte, gen8, i + 1,
                     IF ReplaceValue(t, replace, gen8) < ReplaceValue(t, EntryPtr(tte, i), gen8)
                     THEN EntryPtr(tte, i) ELSE replace)

\* for (i = 1; i < kNumEntries; ++i) if (value(replace) > value(tte[i])) replace = &tte[i];
RECURSIVE ReplaceScan(_, _, _, _, _)
ReplaceScan(t, tte, gen8, i, replace) ==
    IF i >= kNumEntries THEN replace
    ELSE ReplaceScan(t, tte, gen8, i + 1,
                     IF ReplaceValue(t, replace, gen8) > ReplaceValue(t, EntryPtr(tte, i), gen8)
                     THEN EntryPtr(tte, i) ELSE replace)

\* TTData{Move::none(), VALUE_NONE, VALUE_NONE, DEPTH_ENTRY_OFFSET, BOUND_NONE, false, false}
DefaultData ==
    [move |-> MOVE_NONE, value |-> VALUE_NONE, eval |-> VALUE_NONE,
     depth |-> DEPTH_ENTRY_OFFSET, bound |-> BOUND_NONE, is_pv |-> FALSE, cut |-> FALSE]

\* the probe that reports a hit whenever a stub matches
probeHitOnMatch(t, cc, gen8, key) ==
    LET tte == first_entry(cc, key)
        i   == ScanMatch(t, tte, KeyStub(key))
    IN  IF i >= 0
        THEN [hit |-> TRUE, data |-> read(t, EntryPtr(tte, i)), writer |-> EntryPtr(tte, i)]
        ELSE [hit |-> FALSE, data |-> DefaultData,
              writer |-> ReplaceScan(t, tte, gen8, 1, tte)]

\* the probe that returns the victim's data on a miss
probeMissReadsVictim(t, cc, gen8, key) ==
    LET tte == first_entry(cc, key)
        i   == ScanMatch(t, tte, KeyStub(key))
    IN  IF i >= 0
        THEN [hit    |-> is_occupied(EntryAt(t, EntryPtr(tte, i))),
              data   |-> read(t, EntryPtr(tte, i)),
              writer |-> EntryPtr(tte, i)]
        ELSE [hit |-> FALSE, data |-> read(t, ReplaceScan(t, tte, gen8, 1, tte)),
              writer |-> ReplaceScan(t, tte, gen8, 1, tte)]

probe(t, cc, gen8, key) ==
    LET tte == first_entry(cc, key)
        i   == ScanMatch(t, tte, KeyStub(key))
    IN  IF i >= 0
        THEN [hit    |-> is_occupied(EntryAt(t, EntryPtr(tte, i))),
              data   |-> read(t, EntryPtr(tte, i)),
              writer |-> EntryPtr(tte, i)]
        ELSE [hit |-> FALSE, data |-> DefaultData,
              writer |-> ReplaceScan(t, tte, gen8, 1, tte)]

(***************************************************************************)
(* TranspositionTable::new_search, generation and clear.                   *)
(***************************************************************************)
\* an increment on an int, which does not wrap at 256
new_searchNoWrap(gen8) == gen8 + GENERATION_DELTA

\* an increment by 1, which runs into the three flag bits
new_searchByOne(gen8) == ToUint8(gen8 + 1)

\* generation8 += GENERATION_DELTA, on a uint8_t
new_search(gen8) == ToUint8(gen8 + GENERATION_DELTA)

\* the stride rounded up
ClearStrideCeil(cc, threadCount) == (cc + threadCount - 1) \div threadCount

\* const size_t stride = clusterCount / threadCount;
ClearStride(cc, threadCount) == cc \div threadCount

\* const size_t start = stride * i;
ClearStart(cc, threadCount, i) == ClearStride(cc, threadCount) * i

\* every thread zeroes stride clusters, the last one too
ClearLenNoRest(cc, threadCount, i) == ClearStride(cc, threadCount)

\* const size_t len = i + 1 != threadCount ? stride : clusterCount - start;
ClearLen(cc, threadCount, i) ==
    IF i + 1 # threadCount THEN ClearStride(cc, threadCount)
    ELSE cc - ClearStart(cc, threadCount, i)

\* cluster c lies in the range thread i zeroes:
\*   std::memset(&table[start], 0, len * sizeof(Cluster))
ClearedBy(cc, threadCount, i, c) ==
    /\ ClearStart(cc, threadCount, i) <= c
    /\ c < ClearStart(cc, threadCount, i) + ClearLen(cc, threadCount, i)

\* the table after the threadCount jobs of clear have run and have been
\* waited for; the jobs write disjoint ranges
clear(t, cc, threadCount) ==
    [c \in DOMAIN t |->
        IF \E i \in 0 .. (threadCount - 1) : ClearedBy(cc, threadCount, i, c)
        THEN ZeroCluster ELSE t[c]]

(***************************************************************************)
(* TranspositionTable::hashfull.                                           *)
(***************************************************************************)
\* the clusters hashfull samples: for (int i = 0; i < 1000; ++i)
HashfullClusters == 1000

\* table[i]: a cluster no modelled key maps to is as clear left it
TableAt(t, i) == IF i \in DOMAIN t THEN t[i] ELSE ZeroCluster

\* the test without the age: every occupied entry counts
HashfullCountsAnyAge(e, gen8, maxAgeInternal) == BoolToInt(is_occupied(e))

\* table[i].entry[j].is_occupied()
\*   && table[i].entry[j].relative_age(generation8) <= maxAgeInternal
HashfullCounts(e, gen8, maxAgeInternal) ==
    BoolToInt(is_occupied(e) /\ relative_age(e, gen8) <= maxAgeInternal)

\* for (int j = 0; j < int(Cluster::kNumEntries); ++j) cnt += ...
RECURSIVE HashfullEntries(_, _, _, _, _)
HashfullEntries(c, gen8, maxAgeInternal, j, cnt) ==
    IF j >= kNumEntries THEN cnt
    ELSE HashfullEntries(c, gen8, maxAgeInternal, j + 1,
                         cnt + HashfullCounts(c.entry[j], gen8, maxAgeInternal))

\* for (int i = lo; i < hi; ++i) ...: what the clusters lo .. hi-1 add to cnt,
\* the sum taken by halves; a range that holds none of the modelled clusters
\* holds unoccupied entries only and adds nothing
RECURSIVE HashfullLoop(_, _, _, _, _)
HashfullLoop(t, gen8, maxAgeInternal, lo, hi) ==
    IF hi <= lo \/ \A c \in DOMAIN t : c < lo \/ c >= hi THEN 0
    ELSE IF hi = lo + 1 THEN HashfullEntries(TableAt(t, lo), gen8, maxAgeInternal, 0, 0)
    ELSE HashfullLoop(t, gen8, maxAgeInternal, lo, (lo + hi) \div 2)
             + HashfullLoop(t, gen8, maxAgeInternal, (lo + hi) \div 2, hi)

\* int maxAgeInternal = maxAge << GENERATION_BITS; ... return cnt / Cluster::kNumEntries;
hashfull(t, gen8, maxAge) ==
    HashfullLoop(t, gen8, ShiftL(maxAge, GENERATION_BITS), 0, HashfullClusters)
        \div kNumEntries

(***************************************************************************)
(* Inputs.  The clusters below are the ones of a table of 1 MB, where the  *)
(* cluster index is the top 15 bits of the key.                            *)
(***************************************************************************)
\* the key of the specification's first scenario
KeyA == << \hDEAD, \hBEEF, \hCAFE, \hBABE >>
\* KeyA's cluster and KeyA's stub, other upper bits
KeyB == << \hDEAC, 0, 0, \hBABE >>
\* KeyA's cluster, other stubs
KeyC == << \hDEAD, 0, 0, \h1111 >>
KeyD == << \hDEAD, \h1234, 0, \h2222 >>
\* KeyA's cluster, stub 0: the stub of zeroed memory
KeyZ == << \hDEAD, \hFFFF, \hFFFF, 0 >>
\* another cluster, KeyA's stub
KeyO == << 1, 0, 0, \hBABE >>

\* KeyA's cluster, a fourth stub
KeyE == << \hDEAD, 0, 1, \h3333 >>

\* the first cluster of the table, three stubs
KeyP == << 1, 0, 0, \h1111 >>
KeyQ == << 1, 0, 0, \h2222 >>
\* at 1 MB the last cluster hashfull samples, 999, and the first it does not
KeyR == << 1999, 0, 0, \hBABE >>
KeyS == << 2000, 0, 0, \hBABE >>
\* the largest key: the last cluster of the table
KeyMax == << \hFFFF, \hFFFF, \hFFFF, \hFFFF >>

\* the keys probed under Spec, SpecSave and SpecWide
Keys == {KeyA, KeyC, KeyD, KeyZ}
SaveKeys == {KeyA, KeyB}
WideKeys == {KeyA, KeyZ}
\* the keys probed under SpecReplace
ReplaceKeys == {KeyA, KeyC, KeyD, KeyE}
\* the keys probed under SpecSize and SpecFull
SizeKeys == {KeyO, KeyA, KeyMax}
FullKeys == {KeyO, KeyP, KeyQ, KeyR, KeyS}
AllKeys ==
    Keys \cup SaveKeys \cup WideKeys \cup ReplaceKeys \cup SizeKeys \cup FullKeys

Arg(v, ev, pv, b, d8, m, cut) ==
    [v |-> v, ev |-> ev, pv |-> pv, b |-> b, d |-> d8 + DEPTH_ENTRY_OFFSET,
     m |-> m, cut |-> cut]

\* the arguments of a write under Spec: the record of the specification's
\* first scenario, and a deeper one without a move
ProtoArgs ==
    { Arg(100, 80, FALSE, BOUND_EXACT, 10, \h1234, FALSE),
      Arg(-200, -32768, TRUE, BOUND_UPPER, 12, 0, TRUE) }

\* the arguments of a write under SpecSave: the records of the specification's
\* scenarios, and shallow and equal-depth saves without a move
NarrowArgs ==
    { Arg(100, 80, FALSE, BOUND_EXACT, 10, \h1234, FALSE),
      Arg(-200, -32768, FALSE, BOUND_UPPER, 100, \hABCD, TRUE),
      Arg(55, 66, FALSE, BOUND_LOWER, 100, 0, FALSE),
      Arg(7, 9, TRUE, BOUND_LOWER, 1, 0, FALSE),
      Arg(-1, 300, FALSE, BOUND_LOWER, 8, 0, TRUE),
      Arg(3, 4, FALSE, BOUND_UPPER, 3, \h0042, TRUE),
      Arg(20, 21, FALSE, BOUND_LOWER, 20, \h0777, FALSE) }

\* the arguments of a write under SpecWide
WideArgs ==
    { [v |-> p[1], ev |-> p[2], pv |-> pv, b |-> b, d |-> d8 + DEPTH_ENTRY_OFFSET,
       m |-> m, cut |-> cut] :
        p \in { <<-32768, 32767>>, <<32767, -32768>>, <<100, 80>> },
        pv \in BOOLEAN,
        b \in {BOUND_NONE, BOUND_UPPER, BOUND_LOWER, BOUND_EXACT},
        d8 \in {1, 255},
        m \in {0, \h1234},
        cut \in BOOLEAN }

\* the positions saved under SpecReplace, each with the arguments of its
\* save: depths 40, 30 and 20, and a fourth position of depth 30
ReplaceSaves ==
    { << KeyA, Arg(40, 41, FALSE, BOUND_LOWER, 40 - DEPTH_ENTRY_OFFSET, \h0040, FALSE) >>,
      << KeyC, Arg(30, 31, FALSE, BOUND_LOWER, 30 - DEPTH_ENTRY_OFFSET, \h0030, FALSE) >>,
      << KeyD, Arg(20, 21, FALSE, BOUND_LOWER, 20 - DEPTH_ENTRY_OFFSET, \h0020, FALSE) >>,
      << KeyE, Arg(33, 34, TRUE, BOUND_UPPER, 30 - DEPTH_ENTRY_OFFSET, 0, TRUE) >> }

\* the arguments of a write under SpecGen: every PV flag and bound
GenArgs ==
    { Arg(1, 2, pv, b, 10, 0, FALSE) :
        pv \in BOOLEAN, b \in {BOUND_NONE, BOUND_UPPER, BOUND_LOWER, BOUND_EXACT} }

\* the arguments of a write under SpecSize and SpecFull
SizeArgs == { Arg(100, 80, FALSE, BOUND_EXACT, 10, \h1234, TRUE) }
FullArgs == { Arg(-5, 6, TRUE, BOUND_LOWER, 10, 0, FALSE) }

\* the keys probed and the arguments saved by the threads of SpecRace: two
\* positions of one cluster, saves that always commit, with and without the
\* cut flag
RaceKeys == {KeyA, KeyC}
RaceArgs ==
    { Arg(1, 2, FALSE, BOUND_EXACT, 10, \h0101, TRUE),
      Arg(3, 4, FALSE, BOUND_EXACT, 10, \h0202, FALSE) }

\* the maxAge arguments of hashfull under SpecFull
FullAges == 0 .. MaxFullAge

\* the mbSize arguments of resize
ResizeSizes == 1 .. MaxMb

\* a cluster of memory whose every byte is 0xFF
FilledCluster ==
    [entry |-> [i \in EntryIdx |->
                   [key16 |-> 65535, depth8 |-> 255, genBound8 |-> 255,
                    move16 |-> 65535, value16 |-> -1, eval16 |-> -1]],
     extra |-> 65535]

\* what aligned_large_pages_alloc returns is not initialized: its clusters
\* hold whatever the memory held
FreshMemory == {ZeroCluster, FilledCluster}

\* the generations a write passes under SpecWide
WideGens == {8, 248}

(***************************************************************************)
(* The state.                                                              *)
(*   table         the clusters some modelled key maps to                  *)
(*   clusterCount  TranspositionTable::clusterCount                        *)
(*   generation8   TranspositionTable::generation8                         *)
(*   pr            the result of the search's last probe, with its key,    *)
(*                 until the writer is used                                *)
(*   last          the last call, with its arguments and, for a write,     *)
(*                 the entry and the extra field as they were before it;   *)
(*                 under SpecRace the last store to an extra field         *)
(*   writes        the writes since the last clear                         *)
(*   accepted      the entries a save has committed to since the last      *)
(*                 clear                                                   *)
(*   searches      the calls of new_search since the last clear            *)
(*   stored        for every entry of accepted, the generation, PV flag    *)
(*                 and bound of the last save that committed to it, and    *)
(*                 the count of searches at that save                      *)
(*   th            the search threads that save concurrently: each one's   *)
(*                 position in probe and save, and its locals              *)
(*   jobs          whether clear is running, and the zeroing jobs it       *)
(*                 handed to the pool that have not finished               *)
(*   hist          for every field of the entry the threads race on, the   *)
(*                 values clear and the saves have stored in it            *)
(***************************************************************************)
\* the count of a size taken in KB
ClusterCountOfKb(mbSize) == (mbSize * 1024) \div kClusterSize

\* clusterCount = mbSize * 1024 * 1024 / sizeof(Cluster)
ClusterCountOf(mbSize) == (mbSize * 1024 * 1024) \div kClusterSize

\* the clusters the modelled keys map to
TableDomain(cc) == { first_entry(cc, k) \div kClusterSize : k \in AllKeys }

ZeroTable(cc) == [c \in TableDomain(cc) |-> ZeroCluster]

NoProbe == [key |-> << >>]

\* threads.num_threads()
ThreadCounts == 1 .. MaxThreads

\* the search threads that save concurrently
Threads == {1, 2}

IdleThread == [pc |-> "idle"]

\* no clear is running, the pool holds no zeroing job, and no clear has
\* handed one out yet
NoJobs == [clearing |-> FALSE, pending |-> {}, threadCount |-> 0, next |-> 0]

\* nothing is recorded
NoHist == << >>

\* the table of the engine's start: resize(1, threads), which ends with clear
Init ==
    /\ clusterCount = ClusterCountOf(1)
    /\ table = ZeroTable(ClusterCountOf(1))
    /\ generation8 = 0
    /\ pr = NoProbe
    /\ last = [op |-> "resize", mbSize |-> 1]
    /\ writes = 0
    /\ accepted = {}
    /\ searches = 0
    /\ stored = << >>
    /\ th = [t \in Threads |-> IdleThread]
    /\ jobs = NoJobs
    /\ hist = NoHist

\* a probe that on a hit brings the entry's generation up to the table's
ProbeRefreshes(key) ==
    /\ LET r == probe(table, clusterCount, generation8, key)
           c == r.writer \div kClusterSize
           i == (r.writer % kClusterSize) \div SizeofTTEntry
       IN  /\ pr' = [key |-> key] @@ r
           /\ table' = IF r.hit
                       THEN [table EXCEPT ![c].entry[i].genBound8 =
                                ToUint8(BitOr(generation8, BitAnd(@, 7)))]
                       ELSE table
    /\ last' = [op |-> "probe", key |-> key]
    /\ UNCHANGED <<clusterCount, generation8, writes, accepted,
                   searches, stored, th, jobs, hist>>

\* auto [hit, data, writer] = tt.probe(key)
Probe(key) ==
    /\ pr' = [key |-> key] @@ probe(table, clusterCount, generation8, key)
    /\ last' = [op |-> "probe", key |-> key]
    /\ UNCHANGED <<table, clusterCount, generation8, writes, accepted,
                   searches, stored, th, jobs, hist>>

\* writer.write(key, a.v, a.pv, a.b, a.d, a.m, a.ev, a.cut, gen8) with the
\* writer and the key of the last probe
Write(a, gen8) ==
    /\ pr # NoProbe
    /\ LET e == EntryAt(table, pr.writer)
           commits == SaveOverwrites(SaveMove(e, pr.key, a.m), pr.key, a.pv, a.b, a.d, gen8)
       IN  /\ commits => SaveAsserts(a.d)
           /\ table' = TTWriter_write(table, pr.writer, pr.key, a.v, a.pv, a.b, a.d,
                                      a.m, a.ev, a.cut, gen8)
           /\ last' = [op |-> "write", key |-> pr.key, a |-> a, gen |-> gen8,
                       entry |-> pr.writer, hit |-> pr.hit, pre |-> e,
                       preExtra |-> table[pr.writer \div kClusterSize].extra,
                       committed |-> commits]
           /\ accepted' = IF commits THEN accepted \cup {pr.writer} ELSE accepted
           /\ stored' = IF commits
                        THEN (pr.writer :> [gen |-> gen8, pv |-> a.pv, b |-> a.b,
                                           at |-> searches]) @@ stored
                        ELSE stored
    /\ pr' = NoProbe
    /\ writes' = writes + 1
    /\ UNCHANGED <<clusterCount, generation8, searches, th, jobs, hist>>

\* new_search() that also zeroes the table
NewSearchZeroes ==
    /\ generation8' = new_search(generation8)
    /\ table' = ZeroTable(clusterCount)
    /\ searches' = searches + 1
    /\ last' = [op |-> "new_search"]
    /\ UNCHANGED <<clusterCount, pr, writes, accepted, stored, th, jobs, hist>>

\* new_search()
NewSearchCall ==
    /\ generation8' = new_search(generation8)
    /\ searches' = searches + 1
    /\ last' = [op |-> "new_search"]
    /\ UNCHANGED <<table, clusterCount, pr, writes, accepted, stored, th, jobs, hist>>

\* new_search(), as often as Spec and SpecSave follow it
NewSearch ==
    /\ generation8 < MaxSearches * GENERATION_DELTA
    /\ NewSearchCall

\* resize(mbSize, threads), the allocation succeeding, run to its end while
\* no search is running: the last call of resize is clear(threads)
Resize(mbSize) ==
    /\ clusterCount' = ClusterCountOf(mbSize)
    /\ generation8' = 0
    /\ \E threadCount \in ThreadCounts, fresh \in FreshMemory :
           table' = clear([c \in TableDomain(ClusterCountOf(mbSize)) |-> fresh],
                          ClusterCountOf(mbSize), threadCount)
    /\ pr' = NoProbe
    /\ last' = [op |-> "resize", mbSize |-> mbSize]
    /\ writes' = 0
    /\ accepted' = {}
    /\ searches' = 0
    /\ stored' = << >>
    /\ UNCHANGED <<th, jobs, hist>>

\* hashfull(maxAge)
Hashfull(maxAge) ==
    /\ last' = [op |-> "hashfull", maxAge |-> maxAge,
                result |-> hashfull(table, generation8, maxAge)]
    /\ UNCHANGED <<table, clusterCount, generation8, pr, writes, accepted,
                   searches, stored, th, jobs, hist>>

\* clear(threads) with threads.num_threads() = threadCount, run to its end
\* while no search is running
ClearWith(threadCount) ==
    /\ generation8' = 0
    /\ table' = clear(table, clusterCount, threadCount)
    /\ pr' = NoProbe
    /\ last' = [op |-> "clear", preGen |-> generation8,
                dirty |-> \E c \in DOMAIN table : table[c] # ZeroCluster,
                threadCount |-> threadCount]
    /\ writes' = 0
    /\ accepted' = {}
    /\ searches' = 0
    /\ stored' = << >>
    /\ UNCHANGED <<clusterCount, th, jobs, hist>>

\* clear(threads) of an engine of one thread
Clear == ClearWith(1)

\* clear(threads) of an engine of any number of threads
ClearAny == \E threadCount \in ThreadCounts : ClearWith(threadCount)

\* the search passes tt.generation() to write
WriteProto == writes < MaxWrites /\ \E a \in ProtoArgs : Write(a, generation8)

WriteNarrow == writes < MaxSaves /\ \E a \in NarrowArgs : Write(a, generation8)

WriteWide == writes < MaxWideWrites /\ \E a \in WideArgs, g \in WideGens : Write(a, g)

ProbeAny == \E key \in Keys : Probe(key)

ProbeSave == \E key \in SaveKeys : Probe(key)

ProbeWide == \E key \in WideKeys : Probe(key)

\* the probe / write protocol on one cluster, up to a full cluster and a
\* replacement
Next == ProbeAny \/ WriteProto \/ NewSearch \/ Clear

Spec == Init /\ [][Next]_vars

\* repeated saves to one entry
NextSave == ProbeSave \/ WriteNarrow \/ NewSearch \/ Clear

SpecSave == Init /\ [][NextSave]_vars

\* one save of a wide range of arguments
NextWide == ProbeWide \/ WriteWide

SpecWide == Init /\ [][NextWide]_vars

\* saves of three depths into one cluster over several searches, and the
\* probe that picks the entry to replace
ProbeReplace == \E key \in ReplaceKeys : Probe(key)

WriteReplace ==
    /\ writes < MaxReplaceWrites
    /\ \E s \in ReplaceSaves : pr.key = s[1] /\ Write(s[2], generation8)

\* new_search() is called between two searches, when no probe result is held
NewSearchReplace ==
    searches < MaxReplaceSearches /\ pr = NoProbe /\ NewSearchCall

NextReplace == ProbeReplace \/ WriteReplace \/ NewSearchReplace

SpecReplace == Init /\ [][NextReplace]_vars

\* one position saved with every PV flag and bound while the generation goes
\* round its cycle
ProbeGen == Probe(KeyA)

WriteGen == writes < MaxGenWrites /\ \E a \in GenArgs : Write(a, generation8)

NewSearchGen == searches < MaxGenSearches /\ pr = NoProbe /\ NewSearchCall

NextGen == ProbeGen \/ WriteGen \/ NewSearchGen \/ Clear

SpecGen == Init /\ [][NextGen]_vars

\* relative_age on every stored genBound8 byte and every generation: an entry
\* whose genBound8 is any byte, as saves with the 32 generations, the PV flag
\* and the four bounds leave it, and a table of any generation
AgeBytes == 0 .. 255
AgeGenerations == { g \in 0 .. 255 : g % GENERATION_DELTA = 0 }

InitAge ==
    /\ clusterCount = ClusterCountOf(1)
    /\ \E gb \in AgeBytes :
           table = [ZeroTable(ClusterCountOf(1)) EXCEPT
                       ![mul_hi64(KeyA, ClusterCountOf(1))].entry[0] =
                           [ZeroEntry EXCEPT !.key16 = KeyStub(KeyA), !.depth8 = 10,
                                             !.genBound8 = gb]]
    /\ generation8 \in AgeGenerations
    /\ pr = NoProbe
    /\ last = [op |-> "resize", mbSize |-> 1]
    /\ writes = 0
    /\ accepted = {}
    /\ searches = 0
    /\ stored = << >>
    /\ th = [t \in Threads |-> IdleThread]
    /\ jobs = NoJobs
    /\ hist = NoHist

\* tte[0].relative_age(generation8), as probe and hashfull call it
RelativeAge ==
    /\ last.op = "resize"
    /\ last' = [op |-> "relative_age",
                age |-> relative_age(EntryAt(table, first_entry(clusterCount, KeyA)),
                                     generation8)]
    /\ UNCHANGED <<table, clusterCount, generation8, pr, writes, accepted,
                   searches, stored, th, jobs, hist>>

NextAge == RelativeAge

SpecAge == InitAge /\ [][NextAge]_vars

(***************************************************************************)
(* Search threads that probe and save with no lock.  A thread's save is    *)
(* three steps: the statements up to the entry's own fields, the load of   *)
(* the cluster's extra in cutNode1() = cut, and the store of extra.  The   *)
(* entry's own fields are written in one step.                             *)
(***************************************************************************)
\* thread t: auto [hit, data, writer] = tt.probe(key)
TProbe(t, key) ==
    /\ th[t].pc \in {"idle", "done"}
    /\ writes < MaxRaceSaves
    /\ LET r == probe(table, clusterCount, generation8, key)
       IN  th' = [th EXCEPT ![t] = [pc |-> "probed", key |-> key, hit |-> r.hit,
                                    writer |-> r.writer]]
    /\ UNCHANGED <<table, clusterCount, generation8, pr, last, writes, accepted,
                   searches, stored, jobs, hist>>

\* thread t: writer.write(key, ...) up to eval16 = int16_t(ev), or to the end
\* of save when the overwrite test fails
TSave(t, a) ==
    /\ th[t].pc = "probed"
    /\ LET addr == th[t].writer
           c == addr \div kClusterSize
           i == (addr % kClusterSize) \div SizeofTTEntry
           e1 == SaveMove(table[c].entry[i], th[t].key, a.m)
           commits == SaveOverwrites(e1, th[t].key, a.pv, a.b, a.d, generation8)
       IN  /\ commits => SaveAsserts(a.d)
           /\ table' = [table EXCEPT ![c].entry[i] =
                            IF commits
                            THEN SaveCommit(e1, th[t].key, a.v, a.pv, a.b, a.d, a.ev,
                                            generation8)
                            ELSE IF SaveAges(e1) THEN SaveAge(e1) ELSE e1]
           /\ th' = [th EXCEPT ![t] = [pc |-> IF commits THEN "committed" ELSE "done",
                                       key |-> th[t].key, writer |-> addr, a |-> a,
                                       committed |-> commits]]
           /\ accepted' = IF commits THEN accepted \cup {addr} ELSE accepted
           /\ stored' = IF commits
                        THEN (addr :> [gen |-> generation8, pv |-> a.pv, b |-> a.b,
                                      at |-> searches])
                                 @@ stored
                        ELSE stored
    /\ writes' = writes + 1
    /\ UNCHANGED <<clusterCount, generation8, pr, last, searches, jobs, hist>>

\* thread t: the read of cluster_->extra in Accessor::operator=
TLoad(t) ==
    /\ th[t].pc = "committed"
    /\ LET loc == locate_in_cluster(th[t].writer)
       IN  th' = [th EXCEPT ![t] =
                     [pc |-> "loaded", key |-> th[t].key, writer |-> th[t].writer,
                      a |-> th[t].a, committed |-> TRUE,
                      loaded |-> table[ClusterOf(loc.cluster)].extra]]
    /\ UNCHANGED <<table, clusterCount, generation8, pr, last, writes, accepted,
                   searches, stored, jobs, hist>>

\* thread t: the assignment to cluster_->extra in Accessor::operator=
TStore(t) ==
    /\ th[t].pc = "loaded"
    /\ LET loc == locate_in_cluster(th[t].writer)
       IN  /\ table' = [table EXCEPT ![ClusterOf(loc.cluster)].extra =
                            AccessorWrite(th[t].loaded, loc.index, BoolToInt(th[t].a.cut))]
           /\ last' = [op |-> "store", thread |-> t, entry |-> th[t].writer,
                       cut |-> th[t].a.cut, loaded |-> th[t].loaded,
                       preExtra |-> table[ClusterOf(loc.cluster)].extra]
    /\ th' = [th EXCEPT ![t] = [pc |-> "done", key |-> th[t].key,
                                writer |-> th[t].writer, a |-> th[t].a,
                                committed |-> TRUE]]
    /\ UNCHANGED <<clusterCount, generation8, pr, writes, accepted, searches, stored, jobs, hist>>

ThreadProbe == \E t \in Threads, key \in RaceKeys : TProbe(t, key)

ThreadSave == \E t \in Threads, a \in RaceArgs : TSave(t, a)

ThreadLoad == \E t \in Threads : TLoad(t)

ThreadStore == \E t \in Threads : TStore(t)

NextRace == ThreadProbe \/ ThreadSave \/ ThreadLoad \/ ThreadStore

SpecRace == Init /\ [][NextRace]_vars

\* tables of several sizes, cleared by several numbers of threads, and keys
\* of the first and the last cluster
ProbeSize == \E key \in SizeKeys : Probe(key)

WriteSize == writes < MaxSizeWrites /\ \E a \in SizeArgs : Write(a, generation8)

ResizeAny == \E mbSize \in ResizeSizes : Resize(mbSize)

NextSize == ProbeSize \/ WriteSize \/ NewSearch \/ ClearAny \/ ResizeAny

SpecSize == Init /\ [][NextSize]_vars

\* hashfull over entries of two generations, inside and outside the clusters
\* it samples
ProbeFull == \E key \in FullKeys : Probe(key)

WriteFull == writes < MaxFullWrites /\ \E a \in FullArgs : Write(a, generation8)

NewSearchFull == searches < MaxFullSearches /\ pr = NoProbe /\ NewSearchCall

HashfullFull == pr = NoProbe /\ \E maxAge \in FullAges : Hashfull(maxAge)

NextFull == ProbeFull \/ WriteFull \/ NewSearchFull \/ HashfullFull

SpecFull == Init /\ [][NextFull]_vars

(***************************************************************************)
(* resize with an allocation that fails.  aligned_large_pages_alloc hands  *)
(* back a null pointer, resize writes its diagnostic and calls exit: the   *)
(* process is gone, and nothing runs after it.                             *)
(***************************************************************************)
\* table after aligned_large_pages_alloc returned a null pointer
NullTable == << >>

\* std::cerr << "Failed to allocate " << mbSize << "MB for transposition table."
Diagnostic(mbSize) == <<"Failed to allocate ", mbSize, "MB for transposition table.">>

\* the process has not called exit
Running == last.op # "exit"

\* resize(mbSize, threads), the allocation failing, that goes on and returns
ResizeFailsReturns(mbSize) ==
    /\ clusterCount' = ClusterCountOf(mbSize)
    /\ table' = NullTable
    /\ generation8' = 0
    /\ pr' = NoProbe
    /\ last' = [op |-> "resize", mbSize |-> mbSize]
    /\ writes' = 0
    /\ accepted' = {}
    /\ searches' = 0
    /\ stored' = << >>
    /\ UNCHANGED <<th, jobs, hist>>

\* resize(mbSize, threads), the allocation failing: free, the new
\* clusterCount, the null table, the diagnostic and exit(EXIT_FAILURE)
ResizeFails(mbSize) ==
    /\ clusterCount' = ClusterCountOf(mbSize)
    /\ table' = NullTable
    /\ last' = [op |-> "exit", mbSize |-> mbSize, status |-> "EXIT_FAILURE",
                cerr |-> Diagnostic(mbSize)]
    /\ UNCHANGED <<generation8, pr, writes, accepted, searches, stored, th, jobs, hist>>

\* the calls of a process whose allocation can fail
ProbeAlloc == Running /\ ProbeSize

WriteAlloc == Running /\ WriteSize

ClearAlloc == Running /\ ClearAny

HashfullAlloc == Running /\ pr = NoProbe /\ Hashfull(0)

ResizeAlloc == Running /\ ResizeAny

ResizeFailsAlloc == Running /\ \E mbSize \in ResizeSizes : ResizeFails(mbSize)

NextAlloc ==
    \/ ProbeAlloc
    \/ WriteAlloc
    \/ ClearAlloc
    \/ HashfullAlloc
    \/ ResizeAlloc
    \/ ResizeFailsAlloc

SpecAlloc == Init /\ [][NextAlloc]_vars

(***************************************************************************)
(* clear and resize step by step.  clear sets the generation, hands one    *)
(* zeroing job to each thread of the pool, and waits for each thread.  A   *)
(* job runs on its thread at any time after it was handed out.  The search *)
(* probes and writes only while no clear is running.                       *)
(***************************************************************************)
\* threads.wait_on_thread(i) returns: thread i has finished its job
WaitOnThread(i) == i \notin jobs.pending

\* clear(threads) up to its first loop: generation8 = 0 and
\* threadCount = threads.num_threads()
ClearBegin(threadCount) ==
    /\ ~jobs.clearing
    /\ generation8' = 0
    /\ jobs' = [clearing |-> TRUE, pending |-> {}, threadCount |-> threadCount,
                next |-> 0]
    /\ pr' = NoProbe
    /\ last' = [op |-> "clear_begin", threadCount |-> threadCount]
    /\ writes' = 0
    /\ accepted' = {}
    /\ searches' = 0
    /\ stored' = << >>
    /\ UNCHANGED <<table, clusterCount, th, hist>>

\* resize(mbSize, threads) up to the first loop of the clear it ends with
ResizeBegin(mbSize, threadCount) ==
    /\ ~jobs.clearing
    /\ clusterCount' = ClusterCountOf(mbSize)
    /\ \E fresh \in FreshMemory :
           table' = [c \in TableDomain(ClusterCountOf(mbSize)) |-> fresh]
    /\ generation8' = 0
    /\ jobs' = [clearing |-> TRUE, pending |-> {}, threadCount |-> threadCount,
                next |-> 0]
    /\ pr' = NoProbe
    /\ last' = [op |-> "resize_begin", mbSize |-> mbSize]
    /\ writes' = 0
    /\ accepted' = {}
    /\ searches' = 0
    /\ stored' = << >>
    /\ UNCHANGED <<th, hist>>

\* one turn of the first loop: threads.run_on_thread(i, job)
RunOnThread ==
    /\ jobs.clearing
    /\ jobs.next < jobs.threadCount
    /\ jobs' = [jobs EXCEPT !.pending = @ \cup {jobs.next}, !.next = @ + 1]
    /\ last' = [op |-> "run_on_thread", i |-> jobs.next]
    /\ UNCHANGED <<table, clusterCount, generation8, pr, writes, accepted, searches,
                   stored, th, hist>>

\* thread i runs its job: the memset of its range
ClearJob(i) ==
    /\ i \in jobs.pending
    /\ table' = [c \in DOMAIN table |->
                    IF ClearedBy(clusterCount, jobs.threadCount, i, c)
                    THEN ZeroCluster ELSE table[c]]
    /\ jobs' = [jobs EXCEPT !.pending = @ \ {i}]
    /\ last' = [op |-> "job", i |-> i, clearing |-> jobs.clearing]
    /\ UNCHANGED <<clusterCount, generation8, pr, writes, accepted, searches,
                   stored, th, hist>>

\* clear returns once every job is handed out, waiting for no thread
ClearReturnNoWait ==
    /\ jobs.clearing
    /\ jobs.next = jobs.threadCount
    /\ jobs' = [jobs EXCEPT !.clearing = FALSE]
    /\ last' = [op |-> "clear_return", threadCount |-> jobs.threadCount]
    /\ UNCHANGED <<table, clusterCount, generation8, pr, writes, accepted, searches,
                   stored, th, hist>>

\* the second loop of clear and its return: wait_on_thread(i) for every i
ClearReturn ==
    /\ jobs.clearing
    /\ jobs.next = jobs.threadCount
    /\ \A i \in 0 .. (jobs.threadCount - 1) : WaitOnThread(i)
    /\ jobs' = [jobs EXCEPT !.clearing = FALSE]
    /\ last' = [op |-> "clear_return", threadCount |-> jobs.threadCount]
    /\ UNCHANGED <<table, clusterCount, generation8, pr, writes, accepted, searches,
                   stored, th, hist>>

ProbeJoin == ~jobs.clearing /\ ProbeSize

WriteJoin == ~jobs.clearing /\ WriteSize

ClearBeginAny == \E threadCount \in ThreadCounts : ClearBegin(threadCount)

ResizeBeginAny ==
    \E mbSize \in ResizeSizes, threadCount \in ThreadCounts : ResizeBegin(mbSize, threadCount)

ClearJobAny == \E i \in 0 .. (MaxThreads - 1) : ClearJob(i)

NextJoin ==
    \/ ProbeJoin
    \/ WriteJoin
    \/ ClearBeginAny
    \/ ResizeBeginAny
    \/ RunOnThread
    \/ ClearJobAny
    \/ ClearReturn

SpecJoin == Init /\ [][NextJoin]_vars

(***************************************************************************)
(* Search threads that probe and save with no lock, one memory access at   *)
(* a time.  Every load and every store of a field of TTEntry, and of the   *)
(* cluster's extra, is a step of its own, in the order of the statements   *)
(* of probe, read and save; a field is loaded again wherever the source    *)
(* names it again.  A thread keeps what it has loaded in seen and extra,   *)
(* and decides and builds its result from those alone.                     *)
(***************************************************************************)
\* the positions the threads probe and the record each one saves: two
\* positions of one cluster, and a shallow record of the first
TornKeys == {KeyA, KeyC}
TornSaves ==
    { <<KeyA, Arg(100, 80, FALSE, BOUND_LOWER, 13, \h1234, TRUE)>>,
      <<KeyC, Arg(-200, -300, TRUE, BOUND_EXACT, 50, \hABCD, FALSE)>>,
      <<KeyA, Arg(7, 9, FALSE, BOUND_LOWER, 4, 0, FALSE)>> }

\* the records of the threads that race on the aging of one entry: a deep
\* and a shallow record of one position, and a record of the least depth
\* save accepts, d = DEPTH_ENTRY_OFFSET + 1, of another position; they differ
\* in nothing but key, depth and bound
DecayKeys == {KeyA, KeyC}
DecaySaves ==
    { <<KeyA, Arg(7, 9, FALSE, BOUND_LOWER, 13, \h0606, FALSE)>>,
      <<KeyA, Arg(7, 9, FALSE, BOUND_LOWER, 4, \h0606, FALSE)>>,
      <<KeyC, Arg(7, 9, FALSE, BOUND_EXACT, 1, \h0606, FALSE)>> }

\* the fields of TTEntry, and the entry's bit of the cluster's extra
Fields == {"key16", "depth8", "genBound8", "move16", "value16", "eval16", "cut"}

\* what the memset of clear has stored in every field
ClearedHist == [f \in Fields |-> {0}]

\* the values stored so far in the fields of the entry at addr
HistAt(addr) == IF addr \in DOMAIN hist THEN hist[addr] ELSE ClearedHist

\* hist after a store of v to field f of the entry at addr
HistStore(addr, f, v) == (addr :> [HistAt(addr) EXCEPT ![f] = @ \cup {v}]) @@ hist

\* a table of the one cluster of addr, holding at addr what a thread has
\* loaded and zero elsewhere
SeenTable(addr, seen, extra) ==
    [c \in {addr \div kClusterSize} |->
        [entry |-> [j \in EntryIdx |->
                       IF j = (addr % kClusterSize) \div SizeofTTEntry THEN seen
                       ELSE ZeroEntry],
         extra |-> extra]]

\* the statements of save after the move, in order: the loads of the
\* overwrite test, then the stores of the commit or the loads of the aging
\* test and depth8--
TestLoads == <<"key16", "depth8", "genBound8">>
CommitStores == <<"key16", "depth8", "genBound8", "value16", "eval16">>
AgeLoads == <<"depth8", "genBound8">>

\* the loads of read(), in order; genBound8 is named twice
ReadLoads == <<"move16", "value16", "eval16", "depth8", "bound", "is_pv", "cut">>

\* thread t: tt.probe(key) up to the loop over the cluster
TornProbe(t, key) ==
    /\ th[t].pc \in {"idle", "probed"}
    /\ th' = [th EXCEPT ![t] =
                 [pc |-> "scan", key |-> key, tte |-> first_entry(clusterCount, key),
                  i |-> 0, n |-> 1, matched |-> FALSE, hit |-> FALSE, seen |-> ZeroEntry,
                  extra |-> 0, writer |-> 0, data |-> DefaultData]]
    /\ UNCHANGED <<table, clusterCount, generation8, pr, last, writes, accepted,
                   searches, stored, jobs, hist>>

\* thread t: if (tte[i].key16 == key16), one turn of the loop
TornScan(t) ==
    /\ th[t].pc = "scan"
    /\ LET addr == EntryPtr(th[t].tte, th[t].i)
       IN  th' = [th EXCEPT ![t] =
                     IF EntryAt(table, addr).key16 = KeyStub(th[t].key)
                     THEN [@ EXCEPT !.pc = "occupied", !.matched = TRUE, !.writer = addr]
                     ELSE IF th[t].i + 1 < kNumEntries
                     THEN [@ EXCEPT !.i = @ + 1]
                     ELSE [@ EXCEPT !.pc = "replace"]]
    /\ UNCHANGED <<table, clusterCount, generation8, pr, last, writes, accepted,
                   searches, stored, jobs, hist>>

\* thread t: tte[i].is_occupied(), the first member of the result
TornOccupied(t) ==
    /\ th[t].pc = "occupied"
    /\ th' = [th EXCEPT ![t] =
                 [@ EXCEPT !.pc = "read", !.n = 1,
                           !.hit = is_occupied(EntryAt(table, th[t].writer))]]
    /\ UNCHANGED <<table, clusterCount, generation8, pr, last, writes, accepted,
                   searches, stored, jobs, hist>>

\* a load of read() that brings in the low byte of the field only
SeenAfterReadLowByte(t) ==
    LET f == ReadLoads[th[t].n]
        e == EntryAt(table, th[t].writer)
    IN  IF f = "bound"
        THEN [th[t].seen EXCEPT !.genBound8 = BitAnd(e.genBound8, 3)]
        ELSE IF f = "is_pv"
        THEN [th[t].seen EXCEPT !.genBound8 = BitOr(@, BitAnd(e.genBound8, 4))]
        ELSE IF f = "cut" THEN th[t].seen
        ELSE [th[t].seen EXCEPT ![f] = e[f] % 256]

\* what thread t has loaded after the n-th load of read()
SeenAfterRead(t) ==
    LET f == ReadLoads[th[t].n]
        e == EntryAt(table, th[t].writer)
    IN  IF f = "bound"
        THEN [th[t].seen EXCEPT !.genBound8 = BitAnd(e.genBound8, 3)]
        ELSE IF f = "is_pv"
        THEN [th[t].seen EXCEPT !.genBound8 = BitOr(@, BitAnd(e.genBound8, 4))]
        ELSE IF f = "cut" THEN th[t].seen
        ELSE [th[t].seen EXCEPT ![f] = e[f]]

\* thread t: one load of tte[i].read(); after the last one the probe returns
\* the TTData built from what was loaded
TornRead(t) ==
    /\ th[t].pc = "read"
    /\ LET addr  == th[t].writer
           seen  == SeenAfterRead(t)
           extra == table[addr \div kClusterSize].extra
       IN  th' = [th EXCEPT ![t] =
                     IF th[t].n < Len(ReadLoads)
                     THEN [@ EXCEPT !.n = @ + 1, !.seen = seen]
                     ELSE [@ EXCEPT !.pc = "probed", !.extra = extra,
                                    !.data = read(SeenTable(addr, seen, extra), addr)]]
    /\ UNCHANGED <<table, clusterCount, generation8, pr, last, writes, accepted,
                   searches, stored, jobs, hist>>

\* thread t: no stub matched; the loop that picks the entry to replace, and
\* the return of a miss
TornReplace(t) ==
    /\ th[t].pc = "replace"
    /\ th' = [th EXCEPT ![t] =
                 [@ EXCEPT !.pc = "probed", !.hit = FALSE, !.data = DefaultData,
                           !.writer = ReplaceScan(table, th[t].tte, generation8, 1,
                                                  th[t].tte)]]
    /\ UNCHANGED <<table, clusterCount, generation8, pr, last, writes, accepted,
                   searches, stored, jobs, hist>>

\* thread t: writer.write(key, ...) with the writer of its probe, up to the
\* load of key16 in the move rule
TornSave(t, a) ==
    /\ th[t].pc = "probed"
    /\ <<th[t].key, a>> \in TornSaves \cup DecaySaves
    /\ SaveAsserts(a.d)
    /\ th' = [th EXCEPT ![t] =
                 [pc |-> "move", key |-> th[t].key, writer |-> th[t].writer, a |-> a,
                  n |-> 1, extra |-> 0,
                  seen |-> [ZeroEntry EXCEPT
                               !.key16 = EntryAt(table, th[t].writer).key16]]]
    /\ writes' = writes + 1
    /\ UNCHANGED <<table, clusterCount, generation8, pr, last, accepted, searches,
                   stored, jobs, hist>>

\* one field f of the entry at addr becomes v
StoreField(addr, f, v) ==
    /\ table' = [table EXCEPT
                    ![addr \div kClusterSize].entry[(addr % kClusterSize) \div SizeofTTEntry][f]
                        = v]
    /\ hist' = HistStore(addr, f, v)

\* thread t: if (m || uint16_t(k) != key16) move16 = m, on the key16 loaded
TornMove(t) ==
    /\ th[t].pc = "move"
    /\ LET addr == th[t].writer
           e    == [EntryAt(table, addr) EXCEPT !.key16 = th[t].seen.key16]
       IN  IF SaveMove(e, th[t].key, th[t].a.m) # e
           THEN StoreField(addr, "move16", SaveMove(e, th[t].key, th[t].a.m).move16)
           ELSE UNCHANGED <<table, hist>>
    /\ th' = [th EXCEPT ![t] = [@ EXCEPT !.pc = "test", !.n = 1]]
    /\ UNCHANGED <<clusterCount, generation8, pr, last, writes, accepted, searches,
                   stored, jobs>>

\* thread t: one load of the overwrite test; after the last one the test is
\* decided on what was loaded
TornTest(t) ==
    /\ th[t].pc = "test"
    /\ LET f    == TestLoads[th[t].n]
           seen == [th[t].seen EXCEPT ![f] = EntryAt(table, th[t].writer)[f]]
           a    == th[t].a
       IN  th' = [th EXCEPT ![t] =
                     IF th[t].n < Len(TestLoads)
                     THEN [@ EXCEPT !.n = @ + 1, !.seen = seen]
                     ELSE [@ EXCEPT !.n = 1, !.seen = seen,
                                    !.pc = IF SaveOverwrites(seen, th[t].key, a.pv, a.b,
                                                             a.d, generation8)
                                           THEN "commit" ELSE "age"]]
    /\ UNCHANGED <<table, clusterCount, generation8, pr, last, writes, accepted,
                   searches, stored, jobs, hist>>

\* thread t: one store of the commit, key16 to eval16
TornCommit(t) ==
    /\ th[t].pc = "commit"
    /\ LET f == CommitStores[th[t].n]
           a == th[t].a
       IN  StoreField(th[t].writer, f,
                      SaveCommit(ZeroEntry, th[t].key, a.v, a.pv, a.b, a.d, a.ev,
                                 generation8)[f])
    /\ th' = [th EXCEPT ![t] =
                 IF th[t].n < Len(CommitStores) THEN [@ EXCEPT !.n = @ + 1]
                 ELSE [@ EXCEPT !.pc = "cut"]]
    /\ UNCHANGED <<clusterCount, generation8, pr, last, writes, accepted, searches,
                   stored, jobs>>

\* a load of extra that waits while another thread is between its own load
\* and store of extra, as under a lock
TornCutLoadLocked(t) ==
    /\ th[t].pc = "cut"
    /\ \A u \in Threads \ {t} : th[u].pc # "cutStore"
    /\ th' = [th EXCEPT ![t] =
                 [@ EXCEPT !.pc = "cutStore",
                           !.extra = table[th[t].writer \div kClusterSize].extra]]
    /\ UNCHANGED <<table, clusterCount, generation8, pr, last, writes, accepted,
                   searches, stored, jobs, hist>>

\* thread t: the load of cluster_->extra in cutNode1() = cut
TornCutLoad(t) ==
    /\ th[t].pc = "cut"
    /\ th' = [th EXCEPT ![t] =
                 [@ EXCEPT !.pc = "cutStore",
                           !.extra = table[th[t].writer \div kClusterSize].extra]]
    /\ UNCHANGED <<table, clusterCount, generation8, pr, last, writes, accepted,
                   searches, stored, jobs, hist>>

\* thread t: the store of cluster_->extra in cutNode1() = cut, and the return
TornCutStore(t) ==
    /\ th[t].pc = "cutStore"
    /\ LET loc == locate_in_cluster(th[t].writer)
       IN  /\ table' = [table EXCEPT ![ClusterOf(loc.cluster)].extra =
                            AccessorWrite(th[t].extra, loc.index, BoolToInt(th[t].a.cut))]
           /\ hist' = HistStore(th[t].writer, "cut", BoolToInt(th[t].a.cut))
    /\ th' = [th EXCEPT ![t] = IdleThread]
    /\ UNCHANGED <<clusterCount, generation8, pr, last, writes, accepted, searches,
                   stored, jobs>>

\* thread t: the else branch, load by load: the aging test, then depth8--
\* as a load and a store; the return
TornAge(t) ==
    /\ th[t].pc = "age"
    /\ LET addr == th[t].writer
           n    == th[t].n
           seen == IF n <= Len(AgeLoads)
                   THEN [th[t].seen EXCEPT ![AgeLoads[n]] = EntryAt(table, addr)[AgeLoads[n]]]
                   ELSE [th[t].seen EXCEPT !.depth8 = EntryAt(table, addr).depth8]
       IN  IF n < Len(AgeLoads)
           THEN /\ th' = [th EXCEPT ![t] = [@ EXCEPT !.n = @ + 1, !.seen = seen]]
                /\ UNCHANGED <<table, hist>>
           ELSE IF n = Len(AgeLoads)
           THEN /\ th' = [th EXCEPT ![t] =
                             IF SaveAges(seen) THEN [@ EXCEPT !.n = @ + 1, !.seen = seen]
                             ELSE IdleThread]
                /\ UNCHANGED <<table, hist>>
           ELSE IF n = Len(AgeLoads) + 1
           THEN /\ th' = [th EXCEPT ![t] = [@ EXCEPT !.n = @ + 1, !.seen = seen]]
                /\ UNCHANGED <<table, hist>>
           ELSE /\ StoreField(addr, "depth8", SaveAge(th[t].seen).depth8)
                /\ th' = [th EXCEPT ![t] = IdleThread]
    /\ UNCHANGED <<clusterCount, generation8, pr, last, writes, accepted, searches,
                   stored, jobs>>

\* the next step of thread t inside a probe or a save it has begun
TornStep(t) ==
    \/ TornScan(t)
    \/ TornOccupied(t)
    \/ TornRead(t)
    \/ TornReplace(t)
    \/ TornMove(t)
    \/ TornTest(t)
    \/ TornCommit(t)
    \/ TornCutLoad(t)
    \/ TornCutStore(t)
    \/ TornAge(t)

\* the steps of the longest probe: its entry, the stub comparisons, then
\* is_occupied and the loads of read
ProbeSteps == 1 + kNumEntries + 1 + Len(ReadLoads)

\* the steps of the longest save: the load and the store of the move rule, the
\* loads of the test, the stores of the commit, the load and store of extra
SaveSteps == 1 + 1 + Len(TestLoads) + Len(CommitStores) + 2

\* the most steps a thread whose record is r has still to take to the end of
\* the probe or save it is in; 0 outside one
Remaining(r) ==
    IF r.pc = "scan" THEN (kNumEntries - r.i) + 1 + Len(ReadLoads)
    ELSE IF r.pc = "occupied" THEN 1 + Len(ReadLoads)
    ELSE IF r.pc = "read" THEN Len(ReadLoads) - r.n + 1
    ELSE IF r.pc = "replace" THEN 1
    ELSE IF r.pc = "move" THEN 1 + Len(TestLoads) + Len(CommitStores) + 2
    ELSE IF r.pc = "test" THEN (Len(TestLoads) - r.n + 1) + Len(CommitStores) + 2
    ELSE IF r.pc = "commit" THEN (Len(CommitStores) - r.n + 1) + 2
    ELSE IF r.pc = "cut" THEN 2
    ELSE IF r.pc = "cutStore" THEN 1
    ELSE IF r.pc = "age" THEN Len(AgeLoads) + 2 - r.n + 1
    ELSE 0

\* a probe starts while a save is still to come
ThreadTornProbe ==
    /\ writes < MaxTornSaves
    /\ \E t \in Threads, key \in TornKeys : TornProbe(t, key)

ThreadTornScan == \E t \in Threads : TornScan(t)

ThreadTornOccupied == \E t \in Threads : TornOccupied(t)

ThreadTornRead == \E t \in Threads : TornRead(t)

ThreadTornReplace == \E t \in Threads : TornReplace(t)

ThreadTornSave ==
    /\ writes < MaxTornSaves
    /\ \E t \in Threads, s \in TornSaves : TornSave(t, s[2])

ThreadTornMove == \E t \in Threads : TornMove(t)

ThreadTornTest == \E t \in Threads : TornTest(t)

ThreadTornCommit == \E t \in Threads : TornCommit(t)

ThreadTornCutLoad == \E t \in Threads : TornCutLoad(t)

ThreadTornCutStore == \E t \in Threads : TornCutStore(t)

ThreadTornAge == \E t \in Threads : TornAge(t)

NextTorn ==
    \/ ThreadTornProbe
    \/ ThreadTornScan
    \/ ThreadTornOccupied
    \/ ThreadTornRead
    \/ ThreadTornReplace
    \/ ThreadTornSave
    \/ ThreadTornMove
    \/ ThreadTornTest
    \/ ThreadTornCommit
    \/ ThreadTornCutLoad
    \/ ThreadTornCutStore
    \/ ThreadTornAge

SpecTorn == Init /\ [][NextTorn]_vars

\* two threads that probe and save one position, with its deep and its
\* shallow record
WaitSaves == { s \in TornSaves : s[1] = KeyA }

ThreadWaitProbe ==
    /\ writes < MaxWaitSaves
    /\ \E t \in Threads : TornProbe(t, KeyA)

ThreadWaitSave ==
    /\ writes < MaxWaitSaves
    /\ \E t \in Threads, s \in WaitSaves : TornSave(t, s[2])

NextWait ==
    \/ ThreadWaitProbe
    \/ ThreadTornScan
    \/ ThreadTornOccupied
    \/ ThreadTornRead
    \/ ThreadTornReplace
    \/ ThreadWaitSave
    \/ ThreadTornMove
    \/ ThreadTornTest
    \/ ThreadTornCommit
    \/ ThreadTornCutLoad
    \/ ThreadTornCutStore
    \/ ThreadTornAge

SpecWait == Init /\ [][NextWait]_vars

(***************************************************************************)
(* One position of the first cluster saved deep, then left alone or saved  *)
(* shallow, while the generation goes round its cycle; hashfull(0) in      *)
(* between.                                                                *)
(***************************************************************************)
\* a deep record with a move, and a shallow one of another bound without
StaleDeep == Arg(10, 20, FALSE, BOUND_LOWER, 50, \h0101, FALSE)
StaleShallow == Arg(11, 21, FALSE, BOUND_UPPER, 5, 0, FALSE)
StaleArgs == {StaleDeep, StaleShallow}

ProbeStale == Probe(KeyO)

WriteStale == writes < MaxStaleWrites /\ \E a \in StaleArgs : Write(a, generation8)

NewSearchStale == searches < MaxStaleSearches /\ pr = NoProbe /\ NewSearchCall

HashfullStale == pr = NoProbe /\ Hashfull(0)

NextStale == ProbeStale \/ WriteStale \/ NewSearchStale \/ HashfullStale

SpecStale == Init /\ [][NextStale]_vars

(***************************************************************************)
(* Two positions of one cluster, one saved shallow and one deep, while the *)
(* generation goes round its cycle: a cluster that keeps an entry clear    *)
(* left, probed before and after the wrap.                                 *)
(***************************************************************************)
WrapKeys == {KeyA, KeyC}
WrapSaves ==
    { <<KeyA, Arg(1, 2, FALSE, BOUND_UPPER, 5, \h0303, FALSE)>>,
      <<KeyC, Arg(3, 4, FALSE, BOUND_LOWER, 60, \h0404, FALSE)>> }

ProbeWrap == \E key \in WrapKeys : Probe(key)

WriteWrap ==
    /\ writes < MaxWrapWrites
    /\ \E s \in WrapSaves : pr.key = s[1] /\ Write(s[2], generation8)

NewSearchWrap == searches < MaxWrapSearches /\ pr = NoProbe /\ NewSearchCall

NextWrap == ProbeWrap \/ WriteWrap \/ NewSearchWrap

SpecWrap == Init /\ [][NextWrap]_vars

(***************************************************************************)
(* Two threads whose saves interleave access by access, each probe run     *)
(* from its first statement to its last; no clear.                         *)
(***************************************************************************)
\* thread t: auto [hit, data, writer] = tt.probe(key)
DecayProbe(t, key) ==
    /\ th[t].pc = "idle"
    /\ LET r == probe(table, clusterCount, generation8, key)
       IN  th' = [th EXCEPT ![t] = [pc |-> "probed", key |-> key, hit |-> r.hit,
                                    data |-> r.data, writer |-> r.writer]]
    /\ UNCHANGED <<table, clusterCount, generation8, pr, last, writes, accepted,
                   searches, stored, jobs, hist>>

ThreadDecayProbe ==
    /\ writes < MaxDecaySaves
    /\ \E t \in Threads, key \in DecayKeys : DecayProbe(t, key)

ThreadDecaySave ==
    /\ writes < MaxDecaySaves
    /\ \E t \in Threads, s \in DecaySaves : TornSave(t, s[2])

NextDecay ==
    \/ ThreadDecayProbe
    \/ ThreadDecaySave
    \/ ThreadTornMove
    \/ ThreadTornTest
    \/ ThreadTornCommit
    \/ ThreadTornCutLoad
    \/ ThreadTornCutStore
    \/ ThreadTornAge

SpecDecay == Init /\ [][NextDecay]_vars

(***************************************************************************)
(* Two threads that save the records of TornSaves, the saves interleaved   *)
(* access by access, each probe run from its first statement to its last;  *)
(* a thread probes also after the last save.                               *)
(***************************************************************************)
\* a probe before a save, and probes after the last save
ThreadMixProbe == \E t \in Threads, key \in TornKeys : DecayProbe(t, key)

ThreadMixSave ==
    /\ writes < MaxMixSaves
    /\ \E t \in Threads, s \in TornSaves : TornSave(t, s[2])

NextMix ==
    \/ ThreadMixProbe
    \/ ThreadMixSave
    \/ ThreadTornMove
    \/ ThreadTornTest
    \/ ThreadTornCommit
    \/ ThreadTornCutLoad
    \/ ThreadTornCutStore
    \/ ThreadTornAge

SpecMix == Init /\ [][NextMix]_vars

(***************************************************************************)
(* One search thread, two nodes deep.  A node probes when the search       *)
(* enters it and writes with the writer of that probe when the search      *)
(* leaves it; in between the search enters and leaves the nodes below it,  *)
(* one after the other.  th[1] holds the probe result of the upper node,   *)
(* th[2] that of the node below it.  Every probe and every write runs from *)
(* its first statement to its last.                                        *)
(***************************************************************************)
\* two positions of one stub and a third of another, all of one cluster,
\* and the record saved for each
NestKeys == {KeyA, KeyB, KeyC}
NestSaves ==
    { <<KeyA, Arg(100, 80, FALSE, BOUND_LOWER, 13, \h1234, TRUE)>>,
      <<KeyB, Arg(5, 6, FALSE, BOUND_UPPER, 9, \h0505, FALSE)>>,
      <<KeyC, Arg(-200, -300, TRUE, BOUND_EXACT, 50, \hABCD, FALSE)>> }

\* the search enters node n: auto [hit, data, writer] = tt.probe(key)
NodeProbe(n, key) ==
    /\ th[n].pc = "idle"
    /\ n = 2 => th[1].pc = "probed"
    /\ LET r == probe(table, clusterCount, generation8, key)
       IN  th' = [th EXCEPT ![n] = [pc |-> "probed", key |-> key, hit |-> r.hit,
                                    writer |-> r.writer, stale |-> FALSE]]
    /\ last' = [op |-> "probe", node |-> n, key |-> key]
    /\ UNCHANGED <<table, clusterCount, generation8, pr, writes, accepted,
                   searches, stored, jobs, hist>>

\* the search leaves node n: writer.write(key, ...) with the key and the
\* writer of the node's probe.  The writer of the node above is stale once
\* a save has committed to its cluster.
NodeWrite(n, a) ==
    /\ th[n].pc = "probed"
    /\ n = 1 => th[2].pc = "idle"
    /\ <<th[n].key, a>> \in NestSaves
    /\ SaveAsserts(a.d)
    /\ LET w == th[n].writer
           e == EntryAt(table, w)
           commits == SaveOverwrites(SaveMove(e, th[n].key, a.m), th[n].key, a.pv, a.b,
                                     a.d, generation8)
       IN  /\ table' = TTWriter_write(table, w, th[n].key, a.v, a.pv, a.b,
                                      a.d, a.m, a.ev, a.cut, generation8)
           /\ last' = [op |-> "write", node |-> n, key |-> th[n].key, a |-> a,
                       entry |-> w, stale |-> th[n].stale, committed |-> commits]
           /\ th' = [m \in Threads |->
                        IF m = n THEN IdleThread
                        ELSE IF /\ th[m].pc = "probed"
                                /\ commits
                                /\ th[m].writer \div kClusterSize = w \div kClusterSize
                        THEN [th[m] EXCEPT !.stale = TRUE]
                        ELSE th[m]]
    /\ writes' = writes + 1
    /\ UNCHANGED <<clusterCount, generation8, pr, accepted, searches, stored, jobs, hist>>

\* between two searches, no node entered
NewSearchNest ==
    /\ searches < MaxNestSearches
    /\ \A n \in Threads : th[n].pc = "idle"
    /\ NewSearchCall

ClearNest ==
    /\ \A n \in Threads : th[n].pc = "idle"
    /\ writes > 0
    /\ Clear

NodeProbeAny ==
    /\ writes < MaxNestWrites
    /\ \E n \in Threads, key \in NestKeys : NodeProbe(n, key)

NodeWriteAny == \E n \in Threads, s \in NestSaves : NodeWrite(n, s[2])

NextNest == NodeProbeAny \/ NodeWriteAny \/ NewSearchNest \/ ClearNest

SpecNest == Init /\ [][NextNest]_vars

(***************************************************************************)
(* What the claims read off a state.                                       *)
(***************************************************************************)
\* the index of the cluster a key maps to
MappedCluster(key) == mul_hi64(key, clusterCount)

\* the indices of the mapped cluster's entries whose stub is the key's low 16 bits
StubMatches(key) ==
    { i \in EntryIdx : table[MappedCluster(key)].entry[i].key16 = KeyStub(key) }

LowestMatch(key) == CHOOSE i \in StubMatches(key) : \A j \in StubMatches(key) : i <= j

\* the snapshot that carries the arguments of a write
ArgData(a) ==
    [move |-> a.m, value |-> a.v, eval |-> a.ev, depth |-> a.d, bound |-> a.b,
     is_pv |-> a.pv, cut |-> a.cut]

\* the entry the last write went to, as it is now
Written == EntryAt(table, last.entry)

\* entry j's cut flag in a value of extra: bit 5 * j
CutBit(extra, j) == (extra \div (2 ^ (5 * j))) % 2

\* the stored stub of the entry the last write went to was the key's
SameStub == last.pre.key16 = KeyStub(last.key)

(***************************************************************************)
(* C1.  After every probe: hit is true only if some entry of the mapped    *)
(* cluster holds the key's low 16 bits as its stub; and when a stub        *)
(* matches, hit is is_occupied() of the lowest-index matching entry, the   *)
(* snapshot is read() of that entry and the writer refers to that entry.   *)
(***************************************************************************)
C1_ProbeHit ==
    last.op = "probe" =>
        /\ pr.hit => StubMatches(last.key) # {}
        /\ StubMatches(last.key) # {} =>
            LET c == MappedCluster(last.key)
                i == LowestMatch(last.key)
            IN  /\ pr.hit = (table[c].entry[i].depth8 # 0)
                /\ pr.data = read(table, EntryAddr(c, i))
                /\ pr.writer = EntryAddr(c, i)

\* a hit on the third entry of the cluster
C1_Witness ==
    /\ last.op = "probe"
    /\ pr.hit
    /\ pr.writer = EntryAddr(MappedCluster(last.key), 2)

(***************************************************************************)
(* C2.  A write through the writer of a probe that returned hit = false,   *)
(* with the probed key and the table's generation, makes the next probe of *)
(* that key a hit whose snapshot carries exactly the written value, eval,  *)
(* depth, move, bound, is_pv and cut.                                      *)
(***************************************************************************)
C2_OwnWriteVisible ==
    (last.op = "write" /\ ~last.hit) =>
        LET r == probe(table, clusterCount, generation8, last.key)
        IN  r.hit /\ r.data = ArgData(last.a)

\* the specification's first scenario: generation 8, key 0xDEADBEEFCAFEBABE
C2_Witness ==
    /\ last.op = "write"
    /\ ~last.hit
    /\ last.key = KeyA
    /\ generation8 = 8
    /\ last.a = Arg(100, 80, FALSE, BOUND_EXACT, 10, \h1234, FALSE)

(***************************************************************************)
(* C3, as claimed.  Whenever a probe returns hit = false its snapshot is   *)
(* the default snapshot.                                                   *)
(***************************************************************************)
C3_MissIsDefault ==
    (last.op = "probe" /\ ~pr.hit) =>
        pr.data = [move |-> 0, value |-> VALUE_NONE, eval |-> VALUE_NONE,
                   depth |-> DEPTH_ENTRY_OFFSET, bound |-> BOUND_NONE,
                   is_pv |-> FALSE, cut |-> FALSE]

(***************************************************************************)
(* C3, amended.  Whenever a probe returns hit = false: if no stub of the   *)
(* mapped cluster matched, the snapshot is the default snapshot; if a stub *)
(* matched (an unoccupied entry), the snapshot is read() of that entry,    *)
(* which for zeroed memory carries value 0 and eval 0.                     *)
(***************************************************************************)
C3_MissSnapshot ==
    (last.op = "probe" /\ ~pr.hit) =>
        IF StubMatches(last.key) = {}
        THEN pr.data = [move |-> 0, value |-> VALUE_NONE, eval |-> VALUE_NONE,
                        depth |-> DEPTH_ENTRY_OFFSET, bound |-> BOUND_NONE,
                        is_pv |-> FALSE, cut |-> FALSE]
        ELSE /\ table[MappedCluster(last.key)].entry[LowestMatch(last.key)].depth8 = 0
             /\ pr.data = read(table, EntryAddr(MappedCluster(last.key),
                                                LowestMatch(last.key)))

\* a miss on a cluster whose three entries are occupied by other stubs
C3_Witness ==
    /\ last.op = "probe"
    /\ ~pr.hit
    /\ StubMatches(last.key) = {}
    /\ \A i \in EntryIdx : table[MappedCluster(last.key)].entry[i].depth8 # 0

(***************************************************************************)
(* C4.  After a write of key K1 (entered by a probe of K1), a probe of any *)
(* key K2 of the same cluster and the same low 16 bits is a hit that       *)
(* returns the data stored for K1, whatever the upper 48 bits of K2.       *)
(***************************************************************************)
C4_StubCollision ==
    last.op = "write" =>
        \A k2 \in SaveKeys :
            (k2 # last.key /\ MappedCluster(k2) = MappedCluster(last.key)
                /\ KeyStub(k2) = KeyStub(last.key)) =>
                LET r == probe(table, clusterCount, generation8, k2)
                IN  /\ r.hit
                    /\ r.writer = last.entry
                    /\ r.data = read(table, last.entry)
                    /\ last.committed =>
                           r.data = [ArgData(last.a) EXCEPT !.move = Written.move16]
                    /\ ~last.hit => r.data = ArgData(last.a)

\* K1 written with depth OFFSET+20 and bound LOWER, K2 differing in the upper bits
C4_Witness ==
    /\ last.op = "write"
    /\ last.key = KeyA
    /\ last.committed
    /\ last.a = Arg(20, 21, FALSE, BOUND_LOWER, 20, \h0777, FALSE)
    /\ probe(table, clusterCount, generation8, KeyB).data.move = \h0777

(***************************************************************************)
(* C5.  Round trip: a save onto a zeroed entry followed by read returns    *)
(* exactly the saved value, eval, bound, is_pv, depth, move and cut, for   *)
(* values and evals at both ends of the signed 16-bit range, the depths    *)
(* DEPTH_ENTRY_OFFSET+1 and DEPTH_ENTRY_OFFSET+255, and generations that   *)
(* are multiples of 8.                                                     *)
(***************************************************************************)
C5_RoundTrip ==
    (last.op = "write" /\ last.pre = ZeroEntry) =>
        /\ last.committed
        /\ read(table, last.entry) = ArgData(last.a)

\* the largest depth, the smallest value, the cut flag set, generation 248
C5_Witness ==
    /\ last.op = "write"
    /\ last.pre = ZeroEntry
    /\ last.a.d = DEPTH_ENTRY_OFFSET + 255
    /\ last.a.v = -32768
    /\ last.a.ev = 32767
    /\ last.a.cut
    /\ last.gen = 248
    /\ read(table, last.entry).depth = 252

(***************************************************************************)
(* C6.  A committing save to the entry at index i of a cluster makes a     *)
(* later read of that entry return the written cut flag and leaves the cut *)
(* flags of the cluster's other two entries, and every other bit of extra, *)
(* as they were.                                                           *)
(***************************************************************************)
C6_CutFlagFrame ==
    (last.op = "write" /\ last.committed) =>
        LET c  == last.entry \div kClusterSize
            i  == (last.entry % kClusterSize) \div SizeofTTEntry
            x  == table[c].extra
        IN  /\ read(table, last.entry).cut = last.a.cut
            /\ CutBit(x, i) = (IF last.a.cut THEN 1 ELSE 0)
            /\ \A n \in 0 .. 15 :
                   n # 5 * i => (x \div (2 ^ n)) % 2 = (last.preExtra \div (2 ^ n)) % 2
            /\ \A j \in EntryIdx \ {i} :
                   read(table, EntryAddr(c, j)).cut = (CutBit(last.preExtra, j) = 1)

\* the flag of entry 0 cleared while the flags of entries 1 and 2 stay set
C6_Witness ==
    /\ last.op = "write"
    /\ last.committed
    /\ last.entry % kClusterSize = 0
    /\ ~last.a.cut
    /\ last.preExtra = 1 + 32 + 1024
    /\ table[last.entry \div kClusterSize].extra = 32 + 1024

(***************************************************************************)
(* C7.  Every entry a save has committed to since the last clear is        *)
(* occupied, whatever saves followed: skipped saves and their aging        *)
(* decrements never bring the stored depth to 0.                           *)
(***************************************************************************)
C7_AcceptedStaysOccupied ==
    \A addr \in accepted : EntryAt(table, addr).depth8 # 0

\* a skipped save has aged the entry from depth8 8 to 7, the least the aging
\* rule reaches
C7_Witness ==
    /\ last.op = "write"
    /\ ~last.committed
    /\ last.entry \in accepted
    /\ last.pre.depth8 = 8
    /\ Written.depth8 = 7

(***************************************************************************)
(* C8, as claimed.  A save with the stored stub, the stored depth, a bound *)
(* other than EXACT and move 0 leaves the stored move, value and eval      *)
(* unchanged and does not change gen_bound.                                *)
(***************************************************************************)
C8_SameDepthNoOp ==
    (/\ last.op = "write"
     /\ SameStub
     /\ last.a.d - DEPTH_ENTRY_OFFSET = last.pre.depth8
     /\ last.a.b # BOUND_EXACT
     /\ last.a.m = 0) =>
        /\ Written.move16 = last.pre.move16
        /\ Written.value16 = last.pre.value16
        /\ Written.eval16 = last.pre.eval16
        /\ Written.genBound8 = last.pre.genBound8

(***************************************************************************)
(* C8, amended.  A save with the stored stub, a bound other than EXACT,    *)
(* move 0, a depth with (depth - DEPTH_ENTRY_OFFSET) + 2*is_pv at most the *)
(* stored depth8 - 4, and the generation the entry was stored with, leaves *)
(* the stored stub, move, value, eval, gen_bound and cut flag unchanged;   *)
(* the stored depth8 stays or is decremented by 1.                         *)
(***************************************************************************)
C8_SkippedSaveNoOp ==
    (/\ last.op = "write"
     /\ SameStub
     /\ last.a.b # BOUND_EXACT
     /\ last.a.m = 0
     /\ (last.a.d - DEPTH_ENTRY_OFFSET) + 2 * (IF last.a.pv THEN 1 ELSE 0)
            <= last.pre.depth8 - 4
     /\ last.pre.genBound8 \div 8 = last.gen \div 8) =>
        /\ Written.key16 = last.pre.key16
        /\ Written.move16 = last.pre.move16
        /\ Written.value16 = last.pre.value16
        /\ Written.eval16 = last.pre.eval16
        /\ Written.genBound8 = last.pre.genBound8
        /\ table[last.entry \div kClusterSize].extra = last.preExtra
        /\ Written.depth8 \in {last.pre.depth8, last.pre.depth8 - 1}

\* a skipped save whose value, eval and PV flag differ from the stored ones
C8_Witness ==
    /\ last.op = "write"
    /\ ~last.committed
    /\ SameStub
    /\ last.a.m = 0
    /\ last.a.v # last.pre.value16
    /\ last.a.ev # last.pre.eval16
    /\ last.a.pv
    /\ last.pre.move16 # 0
    /\ Written.value16 = last.pre.value16

(***************************************************************************)
(* C9.  A save with bound EXACT always overwrites the entry: afterwards    *)
(* the entry holds the incoming stub, depth, generation, PV flag, bound,   *)
(* value, eval and cut flag, also when the stub is the stored one, the     *)
(* entry is of the current generation and the stored depth is far larger.  *)
(***************************************************************************)
C9_ExactOverwrites ==
    (last.op = "write" /\ last.a.b = BOUND_EXACT) =>
        /\ last.committed
        /\ Written.key16 = KeyStub(last.key)
        /\ Written.depth8 = last.a.d - DEPTH_ENTRY_OFFSET
        /\ Written.genBound8 = last.gen + 4 * (IF last.a.pv THEN 1 ELSE 0) + 3
        /\ Written.value16 = last.a.v
        /\ Written.eval16 = last.a.ev
        /\ CutBit(table[last.entry \div kClusterSize].extra,
                  (last.entry % kClusterSize) \div SizeofTTEntry)
               = (IF last.a.cut THEN 1 ELSE 0)

\* stored depth OFFSET+100 UPPER of the current generation, incoming depth
\* OFFSET+10 EXACT with the same stub: the stored depth8 becomes 10
C9_Witness ==
    /\ last.op = "write"
    /\ SameStub
    /\ last.pre.depth8 = 100
    /\ last.pre.genBound8 % 4 = BOUND_UPPER
    /\ last.pre.genBound8 \div 8 = last.gen \div 8
    /\ last.a.b = BOUND_EXACT
    /\ last.a.d = DEPTH_ENTRY_OFFSET + 10
    /\ Written.depth8 = 10

(***************************************************************************)
(* C10.  Move preservation: a save with move 0 and the stored stub keeps   *)
(* the stored move, also when it commits and updates the other fields; a   *)
(* save with another stub replaces the stored move by the incoming one,    *)
(* also by 0.                                                              *)
(***************************************************************************)
C10_MovePreserved ==
    last.op = "write" =>
        /\ (last.a.m = 0 /\ SameStub) => Written.move16 = last.pre.move16
        /\ ~SameStub => Written.move16 = last.a.m

\* a committing save with move 0 and the stored stub: the stored move stays,
\* the value changes
C10_Witness ==
    /\ last.op = "write"
    /\ last.committed
    /\ SameStub
    /\ last.a.m = 0
    /\ last.pre.move16 = \h1234
    /\ Written.move16 = \h1234
    /\ Written.value16 # last.pre.value16
    /\ Written.depth8 # last.pre.depth8

\* the second half of C10 at work: a save with another stub and move 0 onto an
\* occupied entry that held a move
C10_ReplacedByNone ==
    /\ last.op = "write"
    /\ ~SameStub
    /\ last.a.m = 0
    /\ last.pre.depth8 # 0
    /\ last.pre.move16 # 0
    /\ Written.move16 = 0

(***************************************************************************)
(* C11.  On a probe that matches no stub, the writer refers to the entry   *)
(* of the mapped cluster with the smallest score                           *)
(* depth8 - relative_age(entry, generation), and among the entries of the  *)
(* smallest score to the one with the lowest index.                        *)
(***************************************************************************)
C11_VictimMinScore ==
    (last.op = "probe" /\ StubMatches(last.key) = {}) =>
        LET c == MappedCluster(last.key)
            Score(i) == table[c].entry[i].depth8
                            - relative_age(table[c].entry[i], generation8)
            Least == { i \in EntryIdx : \A j \in EntryIdx : Score(i) <= Score(j) }
        IN  /\ ~pr.hit
            /\ pr.writer = EntryAddr(c, CHOOSE i \in Least : \A j \in Least : i <= j)

\* three entries saved at generation 8 with depths 40, 30 and 20, probed at
\* generation 48 with a fourth stub: the writer is the depth-20 entry, the
\* third of the cluster
C11_Witness ==
    /\ last.op = "probe"
    /\ last.key = KeyE
    /\ generation8 = 48
    /\ \A i \in EntryIdx : table[MappedCluster(KeyE)].entry[i].genBound8 \div 8 = 1
    /\ table[MappedCluster(KeyE)].entry[0].depth8 = 40 - DEPTH_ENTRY_OFFSET
    /\ table[MappedCluster(KeyE)].entry[1].depth8 = 30 - DEPTH_ENTRY_OFFSET
    /\ table[MappedCluster(KeyE)].entry[2].depth8 = 20 - DEPTH_ENTRY_OFFSET
    /\ pr.writer = EntryAddr(MappedCluster(KeyE), 2)

\* an old deep entry is replaced rather than a young shallow one: the age
\* decides, not the depth alone
C11_OldDeepReplaced ==
    /\ last.op = "probe"
    /\ StubMatches(last.key) = {}
    /\ \E i \in EntryIdx :
           /\ EntryAt(table, pr.writer).depth8
                  > table[MappedCluster(last.key)].entry[i].depth8
           /\ table[MappedCluster(last.key)].entry[i].depth8 # 0

\* the entry relative_age was last called on
AgedEntry == EntryAt(table, first_entry(clusterCount, KeyA))

(***************************************************************************)
(* C12.  For every stored gen_bound byte and every generation with zero    *)
(* low 3 bits, relative_age is a multiple of GENERATION_DELTA in [0, 256). *)
(***************************************************************************)
C12_AgeMultiple ==
    last.op = "relative_age" =>
        /\ last.age % GENERATION_DELTA = 0
        /\ 0 <= last.age
        /\ last.age < 256

\* an entry stored at generation 248 with the PV flag and bound EXACT, aged
\* at generation 8 after the wrap: two searches old
C12_Witness ==
    /\ last.op = "relative_age"
    /\ AgedEntry.genBound8 = 255
    /\ generation8 = 8
    /\ last.age = 2 * GENERATION_DELTA

(***************************************************************************)
(* C13.  After k calls of new_search since the table was cleared,          *)
(* generation() is (8k) mod 256 and its low 3 bits are zero; after 32      *)
(* calls it is 0 again.                                                    *)
(***************************************************************************)
C13_GenerationOfSearches ==
    /\ generation8 = (8 * searches) % 256
    /\ generation8 % 8 = 0
    /\ searches = 32 => generation8 = 0

\* the 32nd call has brought the generation from 248 back to 0, over an entry
\* saved before it
C13_Witness ==
    /\ last.op = "new_search"
    /\ searches = 32
    /\ generation8 = 0
    /\ accepted # {}

(***************************************************************************)
(* C14.  new_search changes only the generation counter: every entry,      *)
(* every cluster's extra field and the cluster count are as before it.     *)
(***************************************************************************)
C14_NewSearchFrame ==
    [][last'.op = "new_search" =>
          /\ table' = table
          /\ clusterCount' = clusterCount
          /\ generation8' # generation8]_vars

\* the second new_search over a table that holds a saved entry
C14_Witness ==
    /\ last.op = "new_search"
    /\ \E addr \in accepted : EntryAt(table, addr).depth8 # 0
    /\ generation8 = 16

(***************************************************************************)
(* C19.  In every state reached by clear, new_search, probe and writes     *)
(* that pass generation(): the high 5 bits of a stored gen_bound are the   *)
(* generation of the last committed save, a multiple of GENERATION_DELTA,  *)
(* bit 2 is its PV flag and the low 2 bits are its bound; an entry never   *)
(* saved to holds gen_bound 0.                                             *)
(***************************************************************************)
C19_GenBoundFields ==
    \A c \in DOMAIN table : \A i \in EntryIdx :
        LET gb == table[c].entry[i].genBound8
        IN  IF EntryAddr(c, i) \in accepted
            THEN /\ stored[EntryAddr(c, i)].gen % GENERATION_DELTA = 0
                 /\ gb - (gb % 8) = stored[EntryAddr(c, i)].gen
                 /\ ((gb \div 4) % 2 = 1) = stored[EntryAddr(c, i)].pv
                 /\ gb % 4 = stored[EntryAddr(c, i)].b
            ELSE gb = 0

\* gen_bound 0xFF: generation 248, the PV flag, bound EXACT
C19_Witness ==
    /\ last.op = "write"
    /\ last.committed
    /\ last.gen = 248
    /\ last.a.pv
    /\ last.a.b = BOUND_EXACT
    /\ Written.genBound8 = 255

\* the maxAge arguments C15 reads hashfull with: an entry is at most 31
\* searches old
AllAges == 0 .. 31

(***************************************************************************)
(* C15.  After clear(threads) with at least one thread, and so after       *)
(* resize: every cluster is all-zero, no entry is occupied, hashfull(a) is *)
(* 0 for every a, and generation() is 0, whatever the table and the        *)
(* generation were before.                                                 *)
(***************************************************************************)
C15_ClearZeroes ==
    last.op \in {"clear", "resize"} =>
        /\ \A c \in DOMAIN table : table[c] = ZeroCluster
        /\ \A c \in DOMAIN table : \A i \in EntryIdx : ~is_occupied(table[c].entry[i])
        /\ \A a \in AllAges : hashfull(table, generation8, a) = 0
        /\ generation8 = 0

\* a clear of a table of 3 MB and generation 8 that held entries
C15_Witness ==
    /\ last.op = "clear"
    /\ last.dirty
    /\ last.preGen = 8
    /\ clusterCount = ClusterCountOf(3)
    /\ table[mul_hi64(KeyMax, clusterCount)] = ZeroCluster

(***************************************************************************)
(* C16.  After resize(m) the cluster count is floor(m * 2^20 / 32), that   *)
(* is 32768 * m, and no other call changes it.                             *)
(***************************************************************************)
C16_ClusterCount ==
    /\ [](last.op = "resize" =>
             /\ clusterCount = (last.mbSize * 1048576) \div 32
             /\ clusterCount = 32768 * last.mbSize)
    /\ [][last'.op # "resize" => clusterCount' = clusterCount]_vars

\* a table of 3 MB, whose cluster count is not a power of two, written to
\* since its resize
C16_Witness ==
    /\ clusterCount = 98304
    /\ last.op = "write"
    /\ last.committed

\* the cluster counts C17 reads the mapping at, besides the table's own
ClusterCounts == {1, 2, 3, 5, 1000, 32767, 98304, 8388607}

(***************************************************************************)
(* C17.  For every key and every cluster count >= 1 the cluster index, the *)
(* high 64 bits of key * cluster count, lies in [0, cluster count): probe  *)
(* addresses a cluster of the table, also when the count is not a power of *)
(* two.                                                                    *)
(***************************************************************************)
C17_IndexInRange ==
    last.op = "probe" =>
        /\ mul_hi64(last.key, clusterCount) \in 0 .. (clusterCount - 1)
        /\ pr.writer \div kClusterSize = mul_hi64(last.key, clusterCount)
        /\ pr.writer >= 0
        /\ pr.writer + SizeofTTEntry <= clusterCount * kClusterSize
        /\ \A cc \in ClusterCounts : mul_hi64(last.key, cc) \in 0 .. (cc - 1)

\* the largest key on a table of 3 MB: the last cluster, 98303
C17_Witness ==
    /\ last.op = "probe"
    /\ last.key = KeyMax
    /\ clusterCount = 98304
    /\ pr.writer \div kClusterSize = 98303

\* the entries hashfull counts: occupied, in the first 1000 clusters, and at
\* most maxAge searches old
Sampled(maxAge) ==
    { ij \in { c \in DOMAIN table : c < 1000 } \X EntryIdx :
        /\ table[ij[1]].entry[ij[2]].depth8 # 0
        /\ relative_age(table[ij[1]].entry[ij[2]], generation8) <= 8 * maxAge }

FlagLost(t) ==
    /\ th[t].pc = "done"
    /\ th[t].committed
    /\ cutNode1(table, th[t].writer) # BoolToInt(th[t].a.cut)

(***************************************************************************)
(* C20.  Two threads that commit saves to different entries of one cluster *)
(* may lose one cut-flag update (the witness: a reachable state after both *)
(* saves in which one entry's flag is not what its writer stored).  The    *)
(* flag written by the thread that stored extra last is never lost: after  *)
(* a store, and until the next one, extra is the value the storing thread  *)
(* loaded with its own entry's field replaced by its flag, so what another *)
(* thread stored between that load and that store is undone.               *)
(***************************************************************************)
C20_LastStoreKept ==
    last.op = "store" =>
        LET loc == locate_in_cluster(last.entry)
            x   == table[ClusterOf(loc.cluster)].extra
        IN  /\ cutNode1(table, last.entry) = BoolToInt(last.cut)
            /\ CutBit(x, loc.index) = BoolToInt(last.cut)
            /\ \A j \in EntryIdx \ {loc.index} : CutBit(x, j) = CutBit(last.loaded, j)

\* both threads have committed, to the first and the second entry of one
\* cluster; the flag of the thread that stored last is the one it wrote, the
\* other thread's flag is lost: its store fell between the load and the store
\* of the last one
C20_Witness ==
    /\ last.op = "store"
    /\ \A t \in Threads : th[t].pc = "done" /\ th[t].committed
    /\ th[1].writer # th[2].writer
    /\ th[1].writer \div kClusterSize = th[2].writer \div kClusterSize
    /\ \E t \in Threads : t # last.thread /\ FlagLost(t)
    /\ ~FlagLost(last.thread)
    /\ last.loaded # last.preExtra

\* the overwrite conditions of a save, read off its arguments and the entry as
\* it was before the save
OverwriteCondition ==
    \/ last.a.b = BOUND_EXACT
    \/ KeyStub(last.key) # last.pre.key16
    \/ (last.a.d - DEPTH_ENTRY_OFFSET) + 2 * (IF last.a.pv THEN 1 ELSE 0)
           > last.pre.depth8 - 4
    \/ relative_age(last.pre, last.gen) > 0

\* the cut flag of the entry the last write went to, now and before the write
WrittenCut == CutBit(table[last.entry \div kClusterSize].extra,
                     (last.entry % kClusterSize) \div SizeofTTEntry)
PreCut == CutBit(last.preExtra, (last.entry % kClusterSize) \div SizeofTTEntry)

C25_Aging ==
    (last.op = "write" /\ ~OverwriteCondition) =>
        /\ IF last.pre.depth8 + DEPTH_ENTRY_OFFSET >= 5
              /\ last.pre.genBound8 % 4 # BOUND_EXACT
           THEN Written.depth8 = last.pre.depth8 - 1
           ELSE Written.depth8 = last.pre.depth8
        /\ Written.depth8 <= last.pre.depth8
        /\ Written.depth8 > 0

\* a stored entry of bound EXACT is not aged by a skipped save
C25_Witness ==
    /\ last.op = "write"
    /\ ~OverwriteCondition
    /\ last.pre.genBound8 % 4 = BOUND_EXACT
    /\ last.pre.depth8 + DEPTH_ENTRY_OFFSET >= 5
    /\ Written.depth8 = last.pre.depth8

\* a stored entry of bound UPPER and depth8 100 is aged to 99
C25_Aged ==
    /\ last.op = "write"
    /\ ~OverwriteCondition
    /\ last.pre.depth8 = 100
    /\ Written.depth8 = 99

(***************************************************************************)
(* C26.  When none of the overwrite conditions holds, the entry's          *)
(* key_stub, gen_bound, value, eval and cut flag, and the rest of the      *)
(* table, are unchanged; only the move and the depth can change.           *)
(***************************************************************************)
C26_SkippedFrame ==
    (last.op = "write" /\ ~OverwriteCondition) =>
        /\ Written = [last.pre EXCEPT !.move16 = Written.move16,
                                      !.depth8 = Written.depth8]
        /\ table[last.entry \div kClusterSize].extra = last.preExtra

\* a skipped save that changes the move and the depth, with a cut flag, value
\* and bound that differ from the stored ones
C26_Witness ==
    /\ last.op = "write"
    /\ ~OverwriteCondition
    /\ Written.move16 # last.pre.move16
    /\ Written.depth8 # last.pre.depth8
    /\ last.a.cut # (PreCut = 1)
    /\ last.a.v # last.pre.value16
    /\ last.a.b # last.pre.genBound8 % 4

(***************************************************************************)
(* C27.  The move is decided before and independently of the overwrite     *)
(* test: a save with a non-zero move stores that move also when the save   *)
(* is otherwise skipped, so the stored move can come from a shallower      *)
(* search than the stored value, depth and bound.                          *)
(***************************************************************************)
C27_MoveBeforeCommit ==
    (last.op = "write" /\ last.a.m # 0) =>
        /\ Written.move16 = last.a.m
        /\ (SameStub /\ ~OverwriteCondition) =>
               /\ Written.value16 = last.pre.value16
               /\ Written.genBound8 = last.pre.genBound8
               /\ Written.depth8 >= last.pre.depth8 - 1

\* a skipped save of depth8 3 has replaced the move of an entry of depth8 100
C27_Witness ==
    /\ last.op = "write"
    /\ SameStub
    /\ ~last.committed
    /\ last.a.m = \h0042
    /\ last.a.d - DEPTH_ENTRY_OFFSET = 3
    /\ last.pre.move16 = \hABCD
    /\ last.pre.depth8 = 100
    /\ Written.move16 = \h0042
    /\ Written.depth8 = 99
    /\ Written.value16 = -200

(***************************************************************************)
(* C28.  A writer.write changes at most the entry its writer refers to and *)
(* that entry's own bits of the cluster's extra field: the other entries   *)
(* of the cluster, the other bits of extra, every other cluster, the       *)
(* cluster count and the generation counter are as before.                 *)
(***************************************************************************)
C28_WriteFrame ==
    [][last'.op = "write" =>
          LET c == last'.entry \div kClusterSize
              i == (last'.entry % kClusterSize) \div SizeofTTEntry
          IN  /\ last'.entry = pr.writer
              /\ \A o \in DOMAIN table \ {c} : table'[o] = table[o]
              /\ \A j \in EntryIdx \ {i} : table'[c].entry[j] = table[c].entry[j]
              /\ \A n \in 0 .. (ExtraBits - 1) :
                     (n < i * kExtraBitsPerEntry \/ n >= (i + 1) * kExtraBitsPerEntry) =>
                         (table'[c].extra \div (2 ^ n)) % 2 = (table[c].extra \div (2 ^ n)) % 2
              /\ DOMAIN table' = DOMAIN table
              /\ generation8' = generation8
              /\ clusterCount' = clusterCount]_vars

\* a committing write to the third entry of a full cluster whose other two
\* entries have their cut flags set
C28_Witness ==
    /\ last.op = "write"
    /\ last.committed
    /\ last.entry % kClusterSize = 2 * SizeofTTEntry
    /\ last.pre.depth8 # 0
    /\ Written # last.pre
    /\ CutBit(table[last.entry \div kClusterSize].extra, 0) = 1
    /\ CutBit(table[last.entry \div kClusterSize].extra, 1) = 1
    /\ \A j \in EntryIdx : table[last.entry \div kClusterSize].entry[j].depth8 # 0

\* the clusters job i of a clear of cc clusters by threadCount threads zeroes
ClearRange(cc, threadCount, i) ==
    { c \in ClearStart(cc, threadCount, i)
              .. (ClearStart(cc, threadCount, i) + ClearLen(cc, threadCount, i) - 1) : TRUE }

\* the ranges of the jobs are pairwise disjoint, lie inside the table and
\* together are [0, cc)
RangesPartition(cc, threadCount) ==
    /\ \A i \in 0 .. (threadCount - 1) :
           /\ ClearStart(cc, threadCount, i) >= 0
           /\ ClearLen(cc, threadCount, i) >= 0
           /\ ClearStart(cc, threadCount, i) + ClearLen(cc, threadCount, i) <= cc
           /\ i + 1 # threadCount =>
                  ClearLen(cc, threadCount, i) = cc \div threadCount
    /\ \A i, j \in 0 .. (threadCount - 1) :
           i < j =>
               \/ ClearLen(cc, threadCount, i) = 0
               \/ ClearLen(cc, threadCount, j) = 0
               \/ ClearStart(cc, threadCount, i) + ClearLen(cc, threadCount, i)
                      <= ClearStart(cc, threadCount, j)
    /\ ClearStart(cc, threadCount, 0) = 0
    /\ \A i \in 0 .. (threadCount - 2) :
           ClearStart(cc, threadCount, i) + ClearLen(cc, threadCount, i)
               = ClearStart(cc, threadCount, i + 1)
    /\ ClearStart(cc, threadCount, threadCount - 1)
           + ClearLen(cc, threadCount, threadCount - 1) = cc

\* the same, cluster by cluster, for a table small enough to enumerate
RangesPartitionSmall(cc, threadCount) ==
    /\ \A i, j \in 0 .. (threadCount - 1) :
           i # j => ClearRange(cc, threadCount, i) \cap ClearRange(cc, threadCount, j) = {}
    /\ UNION { ClearRange(cc, threadCount, i) : i \in 0 .. (threadCount - 1) }
           = 0 .. (cc - 1)
    /\ \A c \in 0 .. (cc - 1) :
           Cardinality({ i \in 0 .. (threadCount - 1) : ClearedBy(cc, threadCount, i, c) }) = 1

\* the cluster counts C29 reads the ranges at, besides the table's own: an
\* empty table, fewer clusters than threads, counts the thread count does and
\* does not divide
SmallCounts == 0 .. 13

(***************************************************************************)
(* C29.  For every cluster count >= 0 and every thread count T >= 1, also  *)
(* T above the cluster count and T not dividing it, the ranges the T jobs  *)
(* of clear zero - floor(count / T) clusters from stride * i, the last job *)
(* to the end - are pairwise disjoint, lie inside the table and together   *)
(* cover exactly [0, count).                                               *)
(***************************************************************************)
C29_ClearRanges ==
    last.op = "clear" =>
        /\ RangesPartition(clusterCount, last.threadCount)
        /\ \A cc \in SmallCounts :
               /\ RangesPartition(cc, last.threadCount)
               /\ RangesPartitionSmall(cc, last.threadCount)

\* a clear of 32768 clusters by 3 threads over a table that held entries: 3
\* does not divide 32768, the last job zeroes 10924 clusters; 3 is above the
\* counts 0, 1, 2
C29_Witness ==
    /\ last.op = "clear"
    /\ last.threadCount = 3
    /\ last.dirty
    /\ clusterCount = 32768
    /\ ClearLen(2, 3, 2) = 2
    /\ ClearLen(32768, 3, 2) = 10924


\* C23: when the allocation in resize fails the process ends with the
\* diagnostic on cerr and the failure status.  The table is null only in a
\* process that has exited: resize has not returned and no clear, probe, write
\* or hashfull has run since, for each of them would have left its own name in
\* last.
C23_AllocFailureExits ==
    table = NullTable =>
        /\ last.op = "exit"
        /\ last.status = "EXIT_FAILURE"
        /\ last.cerr = Diagnostic(last.mbSize)
        /\ ~ENABLED NextAlloc

\* a table that held a save is resized to 2 MB, and the allocation fails
C23_Witness ==
    /\ last.op = "exit"
    /\ last.mbSize = 2
    /\ table = NullTable
    /\ clusterCount = ClusterCountOf(2)
    /\ writes > 0


\* C30: clear, and resize which ends with it, return only after every zeroing
\* job they handed out has finished.  Once clear has returned no job is
\* outstanding, every job that ran did so while clear was still running, the
\* table clear returns is zero everywhere, and an entry a save has committed
\* to since is never zeroed by a job.
C30_ClearJoins ==
    /\ ~jobs.clearing => jobs.pending = {}
    /\ last.op = "job" => last.clearing
    /\ last.op = "clear_return" =>
           /\ table = ZeroTable(clusterCount)
           /\ generation8 = 0
    /\ ~jobs.clearing =>
           \A addr \in accepted : is_occupied(EntryAt(table, addr))

\* a clear by three threads of a table that held a save has returned, and a
\* save into the range of the last job has been committed since
C30_Witness ==
    /\ ~jobs.clearing
    /\ jobs.threadCount = 3
    /\ jobs.next = 3
    /\ last.op = "write"
    /\ last.committed
    /\ last.key = KeyMax
    /\ generation8 = 0
    /\ ClearedBy(clusterCount, 3, 2, last.entry \div kClusterSize)
    /\ is_occupied(Written)

\* the last job of a clear by three threads runs after the first two, over a
\* table that held a save in its range
C30_LastJob ==
    /\ last.op = "job"
    /\ last.i = 2
    /\ jobs.threadCount = 3
    /\ jobs.pending = {}
    /\ jobs.clearing
    /\ table = ZeroTable(clusterCount)


\* C21: a probe that runs while another thread's save commits to the same
\* entry, load by load against store by store, can return hit = true with
\* fields of two records (the witnesses).  Whatever it returns from an entry
\* whose stub matched, every field is a value that clear or some save stored
\* in that field of that entry: the stub, the move, the value, the eval, the
\* depth as a stored depth8 plus the offset, the bound and the PV flag as
\* bits of a stored genBound8, the cut flag; and hit means a stored depth8
\* other than zero.
C21_TornFields ==
    \A t \in Threads :
        th[t].pc = "probed" /\ th[t].matched =>
            LET h == HistAt(th[t].writer)
                d == th[t].data
            IN  /\ KeyStub(th[t].key) \in h.key16
                /\ d.move \in h.move16
                /\ d.value \in h.value16
                /\ d.eval \in h.eval16
                /\ \E v \in h.depth8 : d.depth = v + DEPTH_ENTRY_OFFSET
                /\ \E g \in h.genBound8 : d.bound = BitAnd(g, 3)
                /\ \E g \in h.genBound8 : d.is_pv = (BitAnd(g, 4) # 0)
                /\ BoolToInt(d.cut) \in h.cut
                /\ th[t].hit => \E v \in h.depth8 : v # 0

\* a probe of KeyA hits on the stub of KeyA's record while a save of KeyC's
\* record to that entry has stored its move and nothing else yet: KeyC's
\* move with KeyA's value, depth and bound
C21_Witness ==
    \E t \in Threads :
        /\ th[t].pc = "probed"
        /\ th[t].key = KeyA
        /\ th[t].hit
        /\ th[t].data.move = \hABCD
        /\ th[t].data.value = 100
        /\ th[t].data.depth = 13 + DEPTH_ENTRY_OFFSET
        /\ th[t].data.bound = BOUND_LOWER
        /\ \E u \in Threads : u # t /\ th[u].pc \in {"test", "commit"} /\ th[u].key = KeyC

\* a probe of KeyC hits on the stub a save of KeyC's record has just stored
\* over KeyA's record: the new stub and move with KeyA's value and depth
C21_NewStubOldValue ==
    \E t \in Threads :
        /\ th[t].pc = "probed"
        /\ th[t].key = KeyC
        /\ th[t].hit
        /\ th[t].data.move = \hABCD
        /\ th[t].data.value = 100
        /\ th[t].data.depth = 13 + DEPTH_ENTRY_OFFSET
        /\ \E u \in Threads : u # t /\ th[u].pc = "commit" /\ th[u].key = KeyC


\* C22: a probe and a write never wait and end after a bounded number of
\* the thread's own steps, whatever the other thread does.  In every state a
\* thread inside a probe or a save can take its next step.  Every step is
\* one thread's and leaves the other thread's position alone; it either
\* begins a probe or a save, which then has fewer than ProbeSteps or
\* SaveSteps steps left, or brings the thread's operation at least one step
\* nearer its end; and the operation ends in a result (hit, data, writer) or
\* in the return of save, there being no other way out.
C22_WaitFree ==
    /\ [](\A t \in Threads : Remaining(th[t]) > 0 => ENABLED TornStep(t))
    /\ [][\E t \in Threads :
             /\ th'[t] # th[t]
             /\ \A u \in Threads \ {t} : th'[u] = th[u]
             /\ IF Remaining(th[t]) = 0
                THEN /\ Remaining(th'[t]) > 0
                     /\ th'[t].pc = "scan" => Remaining(th'[t]) < ProbeSteps
                     /\ th'[t].pc = "move" => Remaining(th'[t]) < SaveSteps
                ELSE /\ Remaining(th'[t]) < Remaining(th[t])
                     /\ Remaining(th'[t]) = 0 => th'[t].pc \in {"probed", "idle"}
                     /\ th'[t].pc = "probed" =>
                            {"hit", "data", "writer"} \subseteq DOMAIN th'[t]]_vars

\* one thread is about to load extra while the other is between its load and
\* its store of the same cluster's extra, and goes ahead
C22_Witness ==
    \E t \in Threads, u \in Threads :
        /\ t # u
        /\ th[t].pc = "cut"
        /\ th[u].pc = "cutStore"
        /\ th[t].writer \div kClusterSize = th[u].writer \div kClusterSize
        /\ ENABLED TornCutLoad(t)


(***************************************************************************)
(* C31.  For every stored gen_bound byte and every generation with zero    *)
(* low 3 bits, relative_age is the cyclic distance                         *)
(* (generation - (gen_bound & 0xF8)) mod 256, whatever the PV flag and the *)
(* bound bits in the low 3 bits of gen_bound.                              *)
(***************************************************************************)
C31_AgeIsCyclicDistance ==
    last.op = "relative_age" =>
        LET gb == AgedEntry.genBound8
        IN  /\ last.age = (256 + generation8 - BitAnd(gb, 248)) % 256
            /\ \A low \in 0 .. 7 :
                   relative_age([AgedEntry EXCEPT !.genBound8 = BitAnd(gb, 248) + low],
                                generation8) = last.age

\* an entry of generation 8 with the PV flag and bound EXACT set, aged at
\* generation 0 after the wrap: 31 searches old
C31_Witness ==
    /\ last.op = "relative_age"
    /\ AgedEntry.genBound8 = 15
    /\ generation8 = 0
    /\ last.age = 248


\* the calls of new_search since the last save committed to the entry at addr
SearchesSince(addr) == searches - stored[addr].at

(***************************************************************************)
(* C32.  An entry committed with the table's generation and not committed  *)
(* to since has, after k further calls of new_search, the relative age     *)
(* 8 * (k mod 32).  For k mod 32 other than 0 the age is positive and      *)
(* every save overwrites the entry, also the shallow save of the same      *)
(* position, which nothing but the age lets through.  At k = 32 the age is *)
(* 0 again: hashfull(0) counts the entry, and the shallow save is turned   *)
(* away by the depth comparison as in the search the entry was saved in.   *)
(***************************************************************************)
C32_AgeOfSearches ==
    /\ \A addr \in DOMAIN stored :
           LET e == EntryAt(table, addr)
               k == SearchesSince(addr)
               s == StaleShallow
           IN  /\ stored[addr].gen = (8 * stored[addr].at) % 256
               /\ relative_age(e, generation8) = 8 * (k % 32)
               /\ k % 32 # 0 =>
                      /\ relative_age(e, generation8) > 0
                      /\ HashfullCounts(e, generation8, 0) = 0
                      /\ \A a \in StaleArgs :
                             SaveOverwrites(e, KeyO, a.pv, a.b, a.d, generation8)
               /\ k % 32 = 0 =>
                      /\ HashfullCounts(e, generation8, 0) = 1
                      /\ SaveOverwrites(e, KeyO, s.pv, s.b, s.d, generation8)
                             = (s.d - DEPTH_ENTRY_OFFSET + 2 * BoolToInt(s.pv)
                                    > e.depth8 - 4)
    /\ (last.op = "write" /\ last.hit /\ relative_age(last.pre, last.gen) # 0) =>
           last.committed
    /\ last.op = "hashfull" =>
           last.result
               = Cardinality({ addr \in DOMAIN stored : SearchesSince(addr) % 32 = 0 })
                     \div kNumEntries

\* the deep record saved in the first search, 32 calls of new_search, then
\* the shallow save of the position: turned away, the entry aged by one
C32_Witness ==
    /\ last.op = "write"
    /\ last.a = StaleShallow
    /\ last.hit
    /\ ~last.committed
    /\ searches = 33
    /\ generation8 = 8
    /\ Written.depth8 = 49
    /\ \E addr \in DOMAIN stored : SearchesSince(addr) = 32

\* the deep record saved, 31 calls of new_search, then the shallow save of the
\* position: let through by the age alone
C32_StaleOverwritten ==
    /\ last.op = "write"
    /\ last.a = StaleShallow
    /\ last.hit
    /\ last.committed
    /\ last.pre.depth8 = 50
    /\ relative_age(last.pre, last.gen) = 248
    /\ Written.depth8 = 5


(***************************************************************************)
(* C33.  probe and hashfull read only: every entry, every extra field, the *)
(* cluster count and the generation counter are after the call what they   *)
(* were before it.  A hit refreshes nothing, so the age of every saved     *)
(* entry is after the call what it was before.                             *)
(***************************************************************************)
C33_ReadOnly ==
    [][last'.op \in {"probe", "hashfull"} =>
          /\ table' = table
          /\ generation8' = generation8
          /\ clusterCount' = clusterCount
          /\ \A addr \in DOMAIN stored :
                 relative_age(EntryAt(table', addr), generation8')
                     = 8 * (SearchesSince(addr) % 32)]_vars

\* a probe has hit an entry saved two searches ago, and the entry is still
\* two searches old
C33_Witness ==
    /\ last.op = "probe"
    /\ pr # NoProbe
    /\ pr.hit
    /\ pr.data.depth = StaleDeep.d
    /\ generation8 = 16
    /\ EntryAt(table, pr.writer).genBound8 = BOUND_LOWER
    /\ relative_age(EntryAt(table, pr.writer), generation8) = 16

\* hashfull(0) has run over an entry saved in the search before, and the
\* entry is still one search old
C33_HashfullWitness ==
    /\ last.op = "hashfull"
    /\ last.result = 0
    /\ generation8 = 8
    /\ \E addr \in DOMAIN stored :
           /\ SearchesSince(addr) = 1
           /\ relative_age(EntryAt(table, addr), generation8) = 8


\* the entries of the cluster key maps to that are not occupied
Unoccupied(key) ==
    { i \in EntryIdx : ~is_occupied(table[MappedCluster(key)].entry[i]) }

\* the last call is a probe that matched no stub in a cluster that holds an
\* unoccupied entry
MissWithUnoccupied ==
    /\ last.op = "probe"
    /\ StubMatches(last.key) = {}
    /\ Unoccupied(last.key) # {}

(***************************************************************************)
(* C34 as stated.  On a probe that matches no stub in a cluster that holds *)
(* an unoccupied entry, the writer refers to an unoccupied entry, for      *)
(* every generation, also after the generation has wrapped.                *)
(***************************************************************************)
C34_WriterUnoccupied ==
    MissWithUnoccupied => ~is_occupied(EntryAt(table, pr.writer))

(***************************************************************************)
(* C34 as amended.  The writer refers to an unoccupied entry whenever      *)
(* every occupied entry of the cluster has a replace value                 *)
(* depth8 - relative_age above that of some unoccupied entry; this is so   *)
(* as long as the generation has not wrapped since the table was cleared,  *)
(* that is for fewer than 32 calls of new_search.  After the wrap an       *)
(* unoccupied entry, whose generation bits are 0, is no older than the     *)
(* table, and an occupied entry of depth8 at most its own age less the     *)
(* unoccupied entry's is returned in its place when it comes first.        *)
(***************************************************************************)
C34_WriterUnoccupiedNoWrap ==
    MissWithUnoccupied =>
        LET c == MappedCluster(last.key)
            Value(i) == table[c].entry[i].depth8
                            - relative_age(table[c].entry[i], generation8)
        IN  /\ (\E u \in Unoccupied(last.key) :
                    \A i \in EntryIdx \ Unoccupied(last.key) : Value(i) > Value(u))
                   => ~is_occupied(EntryAt(table, pr.writer))
            /\ searches < 32 => ~is_occupied(EntryAt(table, pr.writer))
            /\ is_occupied(EntryAt(table, pr.writer)) =>
                   \A u \in Unoccupied(last.key) :
                       EntryAt(table, pr.writer).depth8
                           <= relative_age(EntryAt(table, pr.writer), generation8)
                                  - relative_age(table[c].entry[u], generation8)

\* before the wrap: the shallow entry is 31 searches old at generation 248,
\* and the probe of the other position is handed the unoccupied second entry
C34_Witness ==
    /\ MissWithUnoccupied
    /\ last.key = KeyC
    /\ generation8 = 248
    /\ searches = 31
    /\ table[MappedCluster(KeyC)].entry[0].depth8 = 5
    /\ table[MappedCluster(KeyC)].entry[0].genBound8 = BOUND_UPPER
    /\ pr.writer = EntryAddr(MappedCluster(KeyC), 1)

\* after the wrap: the shallow entry saved at generation 248 is probed past
\* at generation 0, and the writer is that entry, not the unoccupied ones
C34_OccupiedAfterWrap ==
    /\ MissWithUnoccupied
    /\ last.key = KeyC
    /\ generation8 = 0
    /\ searches = 32
    /\ table[MappedCluster(KeyC)].entry[0].depth8 = 5
    /\ table[MappedCluster(KeyC)].entry[0].genBound8 = 248 + BOUND_UPPER
    /\ Unoccupied(KeyC) = {1, 2}
    /\ pr.writer = EntryAddr(MappedCluster(KeyC), 0)


\* no two occupied entries of one cluster hold the same key stub
NoDuplicateStubs ==
    \A c \in DOMAIN table :
        \A i \in EntryIdx, j \in EntryIdx :
            (/\ i # j
             /\ is_occupied(table[c].entry[i])
             /\ is_occupied(table[c].entry[j]))
                => table[c].entry[i].key16 # table[c].entry[j].key16

(***************************************************************************)
(* C35 as stated.  In every state a single thread reaches by clear,        *)
(* new_search, probe and write, each write with the key of its probe, a    *)
(* writer being used also after other writes to its cluster, no two        *)
(* occupied entries of one cluster hold the same key stub.                 *)
(***************************************************************************)
C35_NoDuplicateStubs == NoDuplicateStubs

(***************************************************************************)
(* C35 as amended.  A write keeps the stubs of the occupied entries of     *)
(* every cluster distinct if no save has committed to the writer's cluster *)
(* since the writer's probe; probe, new_search and clear keep them         *)
(* distinct always.  A writer used after another save has committed to its *)
(* cluster can store a stub a second time.                                 *)
(***************************************************************************)
C35_FreshWriterKeepsStubsDistinct ==
    [][(NoDuplicateStubs /\ ~(last'.op = "write" /\ last'.stale))
           => NoDuplicateStubs']_vars

\* the node below has committed KeyC's record to the first entry since the
\* probe of the upper node, whose writer is that entry, and a probe of KeyB
\* now misses and is handed the second entry: the stubs are still distinct
C35_StaleWriterHeld ==
    /\ NoDuplicateStubs
    /\ th[1].pc = "probed"
    /\ th[1].key = KeyA
    /\ th[1].stale
    /\ th[2].pc = "probed"
    /\ th[2].key = KeyB
    /\ ~th[2].hit
    /\ th[2].writer = th[1].writer + SizeofTTEntry
    /\ EntryAt(table, th[1].writer).key16 = KeyStub(KeyC)

\* a write through a writer that is not stale has hit and replaced the
\* record of its stub, in a cluster of two occupied entries
C35_FreshWrite ==
    /\ last.op = "write"
    /\ ~last.stale
    /\ last.committed
    /\ NoDuplicateStubs
    /\ last.key = KeyA
    /\ EntryAt(table, last.entry + SizeofTTEntry).key16 = KeyStub(KeyC)
    /\ is_occupied(EntryAt(table, last.entry + SizeofTTEntry))


\* thread t is at the store of depth8--, on the depth8 it has loaded for it
Decrementing(t) ==
    /\ th[t].pc = "age"
    /\ th[t].n = Len(AgeLoads) + 2

\* a save has committed a depth8 other than 0 to the entry at addr
CommittedOccupied(addr) == \E v \in HistAt(addr).depth8 : v # 0

(***************************************************************************)
(* C36 as stated.  Under concurrent saves to one entry, interleaved access *)
(* by access and with no clear, an entry whose depth8 has been committed   *)
(* as non-zero never has depth8 = 0 again.                                 *)
(***************************************************************************)
C36_NeverUnoccupiedAgain ==
    \A addr \in DOMAIN hist :
        CommittedOccupied(addr) => is_occupied(EntryAt(table, addr))

(***************************************************************************)
(* C36 as amended.  A commit never stores depth8 = 0.  An occupied entry   *)
(* becomes unoccupied only by the store of depth8-- of a save in its aging *)
(* branch that has loaded depth8 = 1: a value that fails the aging test    *)
(* the save has passed, so another thread has stored it since the test.    *)
(***************************************************************************)
C36_UnoccupiedOnlyByRacedDecrement ==
    [][\A addr \in DOMAIN hist' :
          (/\ CommittedOccupied(addr)
           /\ is_occupied(EntryAt(table, addr))
           /\ ~is_occupied(EntryAt(table', addr)))
              => \E t \in Threads :
                    /\ Decrementing(t)
                    /\ th[t].writer = addr
                    /\ th'[t] = IdleThread
                    /\ th[t].seen.depth8 = 1
                    /\ ~SaveAges(th[t].seen)]_vars

\* the entry has held KeyA's record of depth8 13, another thread has
\* committed KeyC's record of depth8 1 over it, and a decrement has stored 0:
\* the entry holds KeyC's stub and is unoccupied
C36_Witness ==
    \E addr \in DOMAIN hist :
        /\ {1, 13} \subseteq hist[addr].depth8
        /\ EntryAt(table, addr).key16 = KeyStub(KeyC)
        /\ EntryAt(table, addr).depth8 = 0
        /\ \A t \in Threads : th[t].pc \in {"idle", "probed"}


\* the entry a save of key k with the arguments a commits, and its cut flag
Committed(k, a) ==
    [f \in Fields |->
        IF f = "cut" THEN BoolToInt(a.cut)
        ELSE IF f = "move16" THEN a.m
        ELSE SaveCommit(ZeroEntry, k, a.v, a.pv, a.b, a.d, a.ev, generation8)[f]]

\* the entry at addr and its cut flag, field by field
Stored(addr) ==
    [f \in Fields |->
        IF f = "cut" THEN CutBit(table[addr \div kClusterSize].extra,
                                 (addr % kClusterSize) \div SizeofTTEntry)
        ELSE EntryAt(table, addr)[f]]

\* two saves have been called and have returned, and both have committed
\* to the entry at addr: the save s1 of KeyA and the save s2 of KeyC
BothCommitted(addr, s1, s2) ==
    /\ writes = 2
    /\ \A t \in Threads : th[t].pc \in {"idle", "probed"}
    /\ s1[1] = KeyA
    /\ s2[1] = KeyC
    /\ {KeyStub(KeyA), KeyStub(KeyC)} \subseteq HistAt(addr).key16
    /\ s1[2].d - DEPTH_ENTRY_OFFSET \in HistAt(addr).depth8
    /\ s2[2].d - DEPTH_ENTRY_OFFSET \in HistAt(addr).depth8

\* thread t holds the result of a probe of the table as it is now
LaterProbe(t) ==
    /\ th[t].pc = "probed"
    /\ LET r == probe(table, clusterCount, generation8, th[t].key)
       IN  /\ th[t].hit = r.hit
           /\ th[t].data = r.data
           /\ th[t].writer = r.writer

\* the entry at addr is the record of s, whole
CompleteRecord(addr, s) == Stored(addr) = Committed(s[1], s[2])

(***************************************************************************)
(* C37.  After two concurrent committing saves to one entry have both      *)
(* returned, every field of the entry is that field of one of the two      *)
(* records, but not every field of the same one: the entry can hold the    *)
(* stub of one save and depth, gen_bound, value, eval or move of the       *)
(* other, and a probe of the key whose stub it holds then hits and returns *)
(* fields of the other key's record.                                       *)
(***************************************************************************)
C37_FieldsOfTheTwoSaves ==
    \A addr \in DOMAIN hist, s1 \in TornSaves, s2 \in TornSaves :
        BothCommitted(addr, s1, s2) =>
            /\ \A f \in Fields :
                  Stored(addr)[f] \in {Committed(s1[1], s1[2])[f], Committed(s2[1], s2[2])[f]}
            /\ \A t \in Threads :
                  (LaterProbe(t) /\ th[t].writer = addr /\ th[t].hit) =>
                      /\ KeyStub(th[t].key) = Stored(addr).key16
                      /\ \A g \in DOMAIN th[t].data :
                            th[t].data[g] \in {ArgData(s1[2])[g], ArgData(s2[2])[g]}

\* the stored state is always the complete record of one of the two saves
C37_AlwaysCompleteRecord ==
    \A addr \in DOMAIN hist, s1 \in TornSaves, s2 \in TornSaves :
        BothCommitted(addr, s1, s2) =>
            CompleteRecord(addr, s1) \/ CompleteRecord(addr, s2)

\* both saves have returned, the entry holds KeyC's stub with the depth,
\* bound, value, eval and move of KeyA's record, and a probe of KeyC has hit
\* and returned KeyA's data
C37_Witness ==
    \E t \in Threads, s1 \in TornSaves, s2 \in TornSaves :
        /\ LaterProbe(t)
        /\ th[t].key = KeyC
        /\ th[t].hit
        /\ BothCommitted(th[t].writer, s1, s2)
        /\ Stored(th[t].writer).key16 = KeyStub(KeyC)
        /\ \A g \in {"move", "value", "eval", "depth", "bound", "is_pv"} :
              th[t].data[g] = ArgData(s1[2])[g]

\* the same with the keys exchanged: a probe of KeyA returns KeyC's data
C37_WitnessOther ==
    \E t \in Threads, s1 \in TornSaves, s2 \in TornSaves :
        /\ LaterProbe(t)
        /\ th[t].key = KeyA
        /\ th[t].hit
        /\ BothCommitted(th[t].writer, s1, s2)
        /\ Stored(th[t].writer).key16 = KeyStub(KeyA)
        /\ \A g \in {"move", "value", "eval", "depth", "bound", "is_pv"} :
              th[t].data[g] = ArgData(s2[2])[g]


\* the bits of extra that the accessor of the entry at addr reads and writes
ExtraBitsOf(addr) ==
    LET off == AccessorOffset(locate_in_cluster(addr).index)
    IN  off .. (off + kEntrySize - 1)

(***************************************************************************)
(* C38.  With every cluster at an address divisible by 32, the index that  *)
(* locate_in_cluster recovers from the address of entry i of cluster c is  *)
(* i, and the cluster address it recovers is that of c; the entry's cut    *)
(* flag is bit 5 * i of the extra field of c, inside its 16 bits, and no   *)
(* two entries share a bit.  A committing write changes that bit of its    *)
(* own cluster's extra alone.                                              *)
(***************************************************************************)
C38_EntryLocation ==
    /\ \A c \in DOMAIN table, i \in EntryIdx :
          LET loc == locate_in_cluster(EntryAddr(c, i))
          IN  /\ EntryAddr(c, 0) % kClusterSize = 0
              /\ loc.index = i
              /\ loc.cluster = EntryAddr(c, 0)
              /\ ClusterOf(loc.cluster) = c
              /\ ExtraBitsOf(EntryAddr(c, i)) = {5 * i}
              /\ ExtraBitsOf(EntryAddr(c, i)) \subseteq 0 .. (ExtraBits - 1)
              /\ \A j \in EntryIdx \ {i} :
                    ExtraBitsOf(EntryAddr(c, i)) \cap ExtraBitsOf(EntryAddr(c, j)) = {}
    /\ (last.op = "write" /\ last.committed) =>
          LET c == last.entry \div kClusterSize
              i == (last.entry % kClusterSize) \div SizeofTTEntry
          IN  /\ CutBit(table[c].extra, i) = BoolToInt(last.a.cut)
              /\ \A j \in EntryIdx \ {i} :
                    CutBit(table[c].extra, j) = CutBit(last.preExtra, j)
              /\ table[c].extra =
                    last.preExtra + (BoolToInt(last.a.cut) - CutBit(last.preExtra, i)) * 2 ^ (5 * i)

\* a write has committed a record with the cut flag to the third entry of
\* its cluster, at offset 20: bit 10 of extra is set and no other
C38_Witness ==
    /\ last.op = "write"
    /\ last.committed
    /\ last.a.cut
    /\ last.entry % kClusterSize = 2 * SizeofTTEntry
    /\ locate_in_cluster(last.entry).index = 2
    /\ table[last.entry \div kClusterSize].extra = 2 ^ 10

====
